---- MODULE Spec2Model ----
(***************************************************************************)
(* Index Coordinator of the gateway (services/enhanced_indexing.py):       *)
(* incremental indexing, the change-tracking ledger, the background job    *)
(* queue and the job registry, together with the collaborators they call   *)
(* (vector store client, embedding service, chunker, file system).         *)
(*                                                                         *)
(* The service runs on one asyncio event loop.  `running` names the        *)
(* coroutine that currently holds the loop; a coroutine gives the loop     *)
(* back only where an await really suspends (AwaitYields).                 *)
(***************************************************************************)
EXTENDS Integers, Sequences, FiniteSets, TLC

VARIABLES disk, file_indexes, index_file, points, jobs, active_jobs,
          job_queue, now, running, worker, inc, hist, edits,
          search, rerank, chunker, webhook

vars == <<disk, file_indexes, index_file, points, jobs, active_jobs,
          job_queue, now, running, worker, inc, hist, edits, search, rerank,
          chunker, webhook>>

(***************************************************************************)
(* Bounds of the model                                                     *)
(***************************************************************************)
MaxJobs == 2       \* jobs ever created (full + incremental)
MaxEdits == 1      \* file-system changes made by the environment
MaxClock == 1      \* largest value of int(time.time())

(***************************************************************************)
(* Paths, contents, collections                                            *)
(***************************************************************************)
RepoName == "r1"
Branch == "main"
RepoPath == "/repos/" \o RepoName                  \* Path(f"/repos/{repo_name}")
RelPaths == {"a.py", "b.py"}
AbsPaths == {RepoPath \o "/" \o p : p \in RelPaths}
InPaths == RelPaths \cup AbsPaths                  \* what a changeset may name

\* pathlib: base / p; an absolute right operand replaces the base
JoinPath(base, p) == IF p \in AbsPaths THEN p ELSE base \o "/" \o p

\* A Python source is a sequence of top-level function names, each function
\* two lines long; Binary is a file that is not valid UTF-8.
Binary == <<"\\xff">>
Contents == {<<"f">>, <<"f", "g">>, Binary}
Decodable(c) == c # Binary

Collections == {RepoName \o "_" \o Branch, "alt"}
NoFile == [exists |-> FALSE, content |-> <<>>, mtime |-> 0]

\* st_mtime values: the second of the initial commit and a later one
Mtimes == {1, 2}

\* hashlib.sha256(content).hexdigest(); the empty string (here the empty
\* sequence) when the file cannot be opened
CalculateFileHash(d, path) ==
    IF d[path].exists THEN <<"sha256", d[path].content>> ELSE <<>>

\* {file_path}:{node_type}:{node_name}:{start_line}-{end_line}
ChunkId(path, name, i) ==
    path \o ":function:" \o name \o ":" \o ToString(2 * (i - 1)) \o "-"
         \o ToString(2 * (i - 1) + 1)

\* chunk_document on a Python file: one chunk per function
ChunkDocument(path, content) ==
    [i \in 1..Len(content) |->
        [id |-> ChunkId(path, content[i], i), file_path |-> path,
         start_line |-> 2 * (i - 1) + 1, end_line |-> 2 * (i - 1) + 2]]

Range(s) == {s[i] : i \in DOMAIN s}

\* QdrantClient.upsert_points: insert or overwrite by id; on a client error
\* nothing is stored and False is returned
UpsertPoints(store, coll, pts, ok) ==
    IF ok
    THEN [store EXCEPT ![coll] =
            {q \in @ : q.id \notin {p.id : p \in pts}} \cup pts]
    ELSE store


Restrict(f, S) == [k \in S |-> f[k]]

(***************************************************************************)
(* Change tracker                                                          *)
(***************************************************************************)
\* _is_file_changed if an equal mtime counted as newer
IsFileChangedOnEqualMtime(fi, d, file_path, collection_name) ==
    \/ file_path \notin DOMAIN fi
    \/ fi[file_path].collection_name # collection_name
    \/ d[file_path].mtime >= fi[file_path].last_modified
    \/ CalculateFileHash(d, file_path) # fi[file_path].file_hash

\* _is_file_changed without the mtime test
IsFileChangedByHashOnly(fi, d, file_path, collection_name) ==
    \/ file_path \notin DOMAIN fi
    \/ fi[file_path].collection_name # collection_name
    \/ CalculateFileHash(d, file_path) # fi[file_path].file_hash

\* EnhancedIndexingService._is_file_changed
IsFileChanged(fi, d, file_path, collection_name) ==
    LET file_key == file_path IN
    IF file_key \notin DOMAIN fi THEN TRUE
    ELSE IF fi[file_key].collection_name # collection_name THEN TRUE
    ELSE IF d[file_path].mtime > fi[file_key].last_modified THEN TRUE
    ELSE IF CalculateFileHash(d, file_path) # fi[file_key].file_hash THEN TRUE
    ELSE FALSE

\* EnhancedIndexingService._update_file_index
UpdateFileIndex(fi, d, file_path, collection_name, chunks, t) ==
    LET file_key == file_path
        file_index == [file_path |-> file_key,
                       file_hash |-> CalculateFileHash(d, file_path),
                       last_modified |-> d[file_path].mtime,
                       chunk_count |-> Len(chunks),
                       indexed_at |-> t,
                       collection_name |-> collection_name]
    IN  (file_key :> file_index) @@ fi

\* EnhancedIndexingService._process_deleted_files: the ledger after the call.
\* The point ids are only collected; no delete request is sent to the store.
ProcessDeletedFiles(fi, deleted_files) ==
    Restrict(fi, DOMAIN fi \ deleted_files)

\* datetime.isoformat and datetime.fromisoformat
IsoFormat(t) == <<"iso", t>>
FromIsoFormat(text) == text[2]

\* EnhancedIndexingService._save_file_indexes: the JSON object written to
\* file_indexes.json, one member per ledger key
SaveFileIndexesWithoutCollection(fi) ==
    [file_path \in DOMAIN fi |->
        [file_path |-> fi[file_path].file_path,
         file_hash |-> fi[file_path].file_hash,
         last_modified |-> fi[file_path].last_modified,
         chunk_count |-> fi[file_path].chunk_count,
         indexed_at |-> IsoFormat(fi[file_path].indexed_at),
         collection_name |-> "default"]]

SaveFileIndexes(fi) ==
    [file_path \in DOMAIN fi |->
        [file_path |-> fi[file_path].file_path,
         file_hash |-> fi[file_path].file_hash,
         last_modified |-> fi[file_path].last_modified,
         chunk_count |-> fi[file_path].chunk_count,
         indexed_at |-> IsoFormat(fi[file_path].indexed_at),
         collection_name |-> fi[file_path].collection_name]]

\* EnhancedIndexingService._load_file_indexes on the ledger of a new
\* process; data is the content of file_indexes.json, the empty object when
\* there is no file
LoadFileIndexes(data) ==
    [file_path \in DOMAIN data |->
        [file_path |-> data[file_path].file_path,
         file_hash |-> data[file_path].file_hash,
         last_modified |-> data[file_path].last_modified,
         chunk_count |-> data[file_path].chunk_count,
         indexed_at |-> FromIsoFormat(data[file_path].indexed_at),
         collection_name |-> data[file_path].collection_name]]

\* EnhancedIndexingService._process_single_file: the chunks it returns and
\* the store it leaves.  Every exception ends in `return []`.
ProcessSingleFile(store, d, file_path, collection_name, embedOk, upsertOk) ==
    IF ~Decodable(d[file_path].content)
    THEN [chunks |-> <<>>, store |-> store, upserts |-> 0, stored |-> 0]
    ELSE LET chunks == ChunkDocument(file_path, d[file_path].content)
             pts == {[id |-> c.id, file_path |-> file_path] : c \in Range(chunks)}
         IN  IF ~embedOk
             THEN [chunks |-> <<>>, store |-> store, upserts |-> 0, stored |-> 0]
             ELSE [chunks |-> chunks,
                   store |-> UpsertPoints(store, collection_name, pts, upsertOk),
                   upserts |-> IF pts = {} THEN 0 ELSE 1,
                   stored |-> IF upsertOk THEN Cardinality(pts) ELSE 0]

(***************************************************************************)
(* Event loop                                                              *)
(***************************************************************************)
\* AwaitYields if every await handed the loop to the other coroutines
AwaitYieldsAlways(callee, queue) == TRUE

\* Whether an await gives the event loop to other coroutines.  The chunker
\* and IndexingService.index_repository are coroutines without a suspension
\* point of their own; Queue.get suspends only on an empty queue.
AwaitYields(callee, queue) ==
    IF callee = "job_queue.get" THEN queue = <<>> ELSE FALSE

CanRun(task) == running \in {task, "loop"}

IdleInc == [pc |-> "idle"]

NoHist == [quiet |-> FALSE]

\* HybridSearchService and ReRankingService before their first call
NoSearch == [pc |-> "idle"]
NoRerank == [pc |-> "idle"]

\* SemanticChunkingService and WebhookProcessor before their first call
NoChunker == [pc |-> "idle"]
NoWebhook == [pc |-> "idle"]

Init ==
    /\ disk = [p \in AbsPaths |->
                 IF p = RepoPath \o "/a.py"
                 THEN [exists |-> TRUE, content |-> <<"f", "g">>, mtime |-> 1]
                 ELSE [exists |-> TRUE, content |-> <<"f">>, mtime |-> 1]]
    /\ file_indexes = <<>>
    /\ index_file = <<>>
    /\ points = [c \in Collections |-> {}]
    /\ jobs = <<>>
    /\ active_jobs = <<>>
    /\ job_queue = <<>>
    /\ now = 0
    /\ running = "loop"
    /\ worker = [pc |-> "get"]
    /\ inc = IdleInc
    /\ hist = NoHist
    /\ edits = 0
    /\ search = NoSearch
    /\ rerank = NoRerank
    /\ chunker = NoChunker
    /\ webhook = NoWebhook

(***************************************************************************)
(* Environment: the file system and the clock                              *)
(***************************************************************************)
WriteFile(p, c, t) ==
    /\ running = "loop"
    /\ edits < MaxEdits
    /\ disk' = [disk EXCEPT ![p] = [exists |-> TRUE, content |-> c, mtime |-> t]]
    /\ disk' # disk
    /\ edits' = edits + 1
    /\ hist' = [hist EXCEPT !.quiet = FALSE]
    /\ UNCHANGED <<file_indexes, index_file, points, jobs, active_jobs,
                   job_queue, now, running, worker, inc,
                   search, rerank,
                   chunker, webhook>>

RemoveFile(p) ==
    /\ running = "loop"
    /\ edits < MaxEdits
    /\ disk[p].exists
    /\ disk' = [disk EXCEPT ![p] = NoFile]
    /\ edits' = edits + 1
    /\ hist' = [hist EXCEPT !.quiet = FALSE]
    /\ UNCHANGED <<file_indexes, index_file, points, jobs, active_jobs,
                   job_queue, now, running, worker, inc,
                   search, rerank,
                   chunker, webhook>>

Tick ==
    /\ now < MaxClock
    /\ now' = now + 1
    /\ UNCHANGED <<disk, file_indexes, index_file, points, jobs, active_jobs,
                   job_queue, running, worker, inc, hist, edits,
                   search, rerank,
                   chunker, webhook>>

(***************************************************************************)
(* incremental_index, one step per stretch of code                         *)
(***************************************************************************)
SetStatus(js, j, st) == [js EXCEPT ![j].status = st]

\* incremental_index, lines 185-199: the job is created and registered
IncCreate(added_files, modified_files, deleted_files, collection_arg) ==
    /\ running = "loop"
    /\ inc.pc \in {"idle", "done"}
    /\ Len(jobs) < MaxJobs
    /\ LET collection_name == IF collection_arg = "None"
                              THEN RepoName \o "_" \o Branch
                              ELSE collection_arg
           changed_files == added_files \cup modified_files \cup deleted_files
           job_id == "incremental_" \o RepoName \o "_" \o Branch \o "_"
                        \o ToString(now)
           job == [job_id |-> job_id, job_type |-> "incremental",
                   status |-> "queued", collection |-> collection_name,
                   files_count |-> Cardinality(changed_files),
                   chunks_count |-> 0]
           rerun == /\ inc.pc = "done"
                    /\ hist.quiet
                    /\ inc.added = added_files
                    /\ inc.modified = modified_files
                    /\ inc.deleted = deleted_files
                    /\ inc.collection = collection_name
       IN  /\ jobs' = Append(jobs, job)
           /\ active_jobs' = (job_id :> Len(jobs) + 1) @@ active_jobs
           /\ inc' = [pc |-> "created", job |-> Len(jobs) + 1,
                      collection |-> collection_name,
                      added |-> added_files, modified |-> modified_files,
                      deleted |-> deleted_files,
                      remaining |-> {}, order |-> <<>>, outcome |-> <<>>,
                      processed_files |-> 0, total_chunks |-> 0,
                      upserts |-> 0, deletes |-> 0, stored |-> 0,
                      rerun |-> rerun,
                      before |-> IF rerun
                                 THEN [fi |-> file_indexes, pts |-> points]
                                 ELSE <<>>,
                      result |-> <<>>, raised |-> FALSE]
    /\ running' = "inc"
    /\ UNCHANGED <<disk, file_indexes, index_file, points, job_queue, now,
                   worker, hist, edits,
                   search, rerank,
                   chunker, webhook>>

\* lines 201-214: status processing, _process_deleted_files, the work list
IncBegin ==
    /\ running = "inc"
    /\ inc.pc = "created"
    /\ jobs' = SetStatus(jobs, inc.job, "processing")
    /\ file_indexes' = ProcessDeletedFiles(file_indexes, inc.deleted)
    /\ inc' = [inc EXCEPT !.pc = "files",
                          !.remaining = inc.added \cup inc.modified]
    /\ UNCHANGED <<disk, index_file, points, active_jobs, job_queue, now,
                   running, worker, hist, edits,
                   search, rerank,
                   chunker, webhook>>

\* AfterFileFailure if the failure of one file ended the loop
AbortOnFileFailure(remaining, file_path) == {}

\* What is left of the work list after a file failed: the loop goes on
AfterFileFailure(remaining, file_path) == remaining \ {file_path}

\* lines 216-240: one iteration of the loop over all_files_to_process.
\* inc.order and inc.outcome record what happened to each file.
IncFile(file_path, embedOk, upsertOk) ==
    /\ CanRun("inc")
    /\ inc.pc = "files"
    /\ file_path \in inc.remaining
    /\ LET full_path == JoinPath(RepoPath, file_path) IN
       IF ~disk[full_path].exists
       THEN /\ inc' = [inc EXCEPT !.remaining = @ \ {file_path},
                                  !.order = Append(@, file_path),
                                  !.outcome = (file_path :> "missing") @@ @]
            /\ UNCHANGED <<file_indexes, points>>
       ELSE IF ~IsFileChanged(file_indexes, disk, full_path, inc.collection)
       THEN /\ inc' = [inc EXCEPT !.remaining = @ \ {file_path},
                                  !.order = Append(@, file_path),
                                  !.outcome = (file_path :> "unchanged") @@ @,
                                  !.processed_files = @ + 1]
            /\ UNCHANGED <<file_indexes, points>>
       ELSE LET r == ProcessSingleFile(points, disk, full_path, inc.collection,
                                       embedOk, upsertOk)
                kind == IF ~Decodable(disk[full_path].content) THEN "undecodable"
                        ELSE IF ~embedOk THEN "embed_failed"
                        ELSE IF ~upsertOk THEN "upsert_failed"
                        ELSE "indexed"
            IN  /\ points' = r.store
                /\ file_indexes' = UpdateFileIndex(file_indexes, disk, full_path,
                                                   inc.collection, r.chunks, now)
                /\ inc' = [inc EXCEPT
                     !.remaining = IF kind # "indexed"
                                   THEN AfterFileFailure(@, file_path)
                                   ELSE @ \ {file_path},
                     !.order = Append(@, file_path),
                     !.outcome = (file_path :> kind) @@ @,
                     !.total_chunks = @ + Len(r.chunks),
                     !.processed_files = @ + 1,
                     !.upserts = @ + r.upserts,
                     !.stored = @ + r.stored]
    /\ running' = IF AwaitYields("chunk_document", job_queue)
                  THEN "loop" ELSE "inc"
    /\ UNCHANGED <<disk, index_file, jobs, active_jobs, job_queue, now,
                   worker, hist, edits,
                   search, rerank,
                   chunker, webhook>>

\* lines 242-262: _save_file_indexes, status completed, the result
IncFinish ==
    /\ CanRun("inc")
    /\ inc.pc = "files"
    /\ inc.remaining = {}
    /\ index_file' = SaveFileIndexes(file_indexes)
    /\ jobs' = [jobs EXCEPT ![inc.job].status = "completed",
                            ![inc.job].chunks_count = inc.total_chunks]
    /\ inc' = [inc EXCEPT !.pc = "done",
                 !.rerun = inc.rerun /\ hist.quiet,
                 !.result = [success |-> TRUE,
                             job_id |-> jobs[inc.job].job_id,
                             files_processed |-> inc.processed_files,
                             chunks_indexed |-> inc.total_chunks]]
    /\ hist' = [quiet |-> TRUE]
    /\ running' = "loop"
    /\ UNCHANGED <<disk, file_indexes, points, active_jobs, job_queue, now,
                   worker, edits,
                   search, rerank,
                   chunker, webhook>>

(***************************************************************************)
(* Full index jobs: the queue and its background worker                    *)
(***************************************************************************)
RECURSIVE SumChunks(_, _)
SumChunks(d, ps) ==
    IF ps = {} THEN 0
    ELSE LET p == CHOOSE q \in ps : TRUE
         IN  (IF Decodable(d[p].content) THEN Len(d[p].content) ELSE 0)
                 + SumChunks(d, ps \ {p})

\* IndexingService.index_repository: discovers and chunks the files of the
\* repository and returns the chunks; it writes nothing
ServiceIndexRepository(d, repoExists) ==
    LET files == {p \in AbsPaths : d[p].exists} IN
    IF ~repoExists
    THEN [success |-> FALSE, chunks_indexed |-> 0, files_processed |-> 0]
    ELSE IF files = {}
    THEN [success |-> FALSE, chunks_indexed |-> 0, files_processed |-> 0]
    ELSE [success |-> TRUE, chunks_indexed |-> SumChunks(d, files),
          files_processed |-> Cardinality(files)]

\* EnhancedIndexingService.index_repository: register the job and queue it
IndexRepository(collection_name) ==
    /\ running = "loop"
    /\ Len(jobs) < MaxJobs
    /\ LET job_id == "full_" \o collection_name \o "_" \o ToString(now)
           job == [job_id |-> job_id, job_type |-> "full",
                   status |-> "queued", collection |-> collection_name,
                   files_count |-> 0, chunks_count |-> 0]
       IN  /\ jobs' = Append(jobs, job)
           /\ active_jobs' = (job_id :> Len(jobs) + 1) @@ active_jobs
           /\ job_queue' = Append(job_queue,
                                  [collection |-> collection_name,
                                   job |-> Len(jobs) + 1])
    /\ UNCHANGED <<disk, file_indexes, index_file, points, now, running,
                   worker, inc, hist, edits,
                   search, rerank,
                   chunker, webhook>>

\* _process_job_queue takes the next job; _execute_indexing_job, lines 404-408
WorkerGet ==
    /\ CanRun("worker")
    /\ worker.pc = "get"
    /\ job_queue # <<>>
    /\ LET job_data == Head(job_queue) IN
       /\ job_queue' = Tail(job_queue)
       /\ jobs' = SetStatus(jobs, job_data.job, "processing")
       /\ worker' = [pc |-> "exec", job |-> job_data.job,
                     collection |-> job_data.collection]
    /\ running' = IF AwaitYields("index_repository", job_queue')
                  THEN "loop" ELSE "worker"
    /\ UNCHANGED <<disk, file_indexes, index_file, points, active_jobs, now,
                   inc, hist, edits,
                   search, rerank,
                   chunker, webhook>>

\* FullJobStatus if an unsuccessful job were marked for another attempt
FullJobStatusRequeue(result) == IF result.success THEN "completed" ELSE "queued"

\* The status a full job ends in, lines 415-421
FullJobStatus(result) == IF result.success THEN "completed" ELSE "failed"

\* AfterJob if the worker ended with the first unsuccessful job
AfterJobStopOnFailure(result) == IF result.success THEN "get" ELSE "stopped"

\* Where _process_job_queue goes after a job: `while True`, and neither an
\* unsuccessful result nor an exception leaves the loop
AfterJob(result) == "get"

\* _execute_indexing_job, lines 410-423, then task_done and the next get
WorkerExec(repoExists) ==
    /\ CanRun("worker")
    /\ worker.pc = "exec"
    /\ LET result == ServiceIndexRepository(disk, repoExists) IN
       jobs' = [jobs EXCEPT
                  ![worker.job].status = FullJobStatus(result),
                  ![worker.job].files_count =
                      IF result.success THEN result.files_processed ELSE @,
                  ![worker.job].chunks_count =
                      IF result.success THEN result.chunks_indexed ELSE @]
    /\ worker' = [pc |-> AfterJob(ServiceIndexRepository(disk, repoExists))]
    /\ running' = IF AwaitYields("job_queue.get", job_queue)
                  THEN "loop" ELSE "worker"
    /\ UNCHANGED <<disk, file_indexes, index_file, points, active_jobs,
                   job_queue, now, inc, hist, edits,
                   search, rerank,
                   chunker, webhook>>

(***************************************************************************)
(* Specifications                                                          *)
(***************************************************************************)
\* The changesets a push event may carry (parse_github_webhook collects the
\* added, modified and removed paths of all commits of the push)
Changesets ==
    {cs \in [added : SUBSET {"b.py"},
             modified : SUBSET {"a.py"},
             deleted : {{}, {"a.py"}, {RepoPath \o "/a.py"}}] :
        cs.added \cup cs.modified \cup cs.deleted # {}}

\* The environment rewrites, touches or removes a.py; b.py stays as it is
Edited == {RepoPath \o "/a.py"}

EnvNext ==
    \/ \E p \in Edited, c \in Contents, t \in Mtimes : WriteFile(p, c, t)
    \/ \E p \in Edited : RemoveFile(p)

IncSteps ==
    \/ IncBegin
    \/ \E p \in InPaths, e \in BOOLEAN, u \in BOOLEAN : IncFile(p, e, u)
    \/ IncFinish

\* incremental_index called by _handle_push_event: no collection_name
PushNext ==
    \/ \E cs \in Changesets :
          IncCreate(cs.added, cs.modified, cs.deleted, "None")
    \/ IncSteps

\* The same for pushes that modify a.py only
PushModifiedNext ==
    \/ IncCreate({}, {"a.py"}, {}, "None")
    \/ IncSteps

\* incremental_index called with or without a collection_name
IncNext ==
    \/ \E cs \in Changesets, c \in {"None", "alt"} :
          IncCreate(cs.added, cs.modified, cs.deleted, c)
    \/ IncSteps

FullNext ==
    \/ \E c \in Collections : IndexRepository(c)
    \/ WorkerGet
    \/ \E r \in BOOLEAN : WorkerExec(r)

Next == EnvNext \/ Tick \/ IncNext \/ FullNext

Spec == Init /\ [][Next]_vars

\* Incremental indexing against a changing file system
SpecIndex == Init /\ [][EnvNext \/ PushNext]_vars

\* Job life cycle: full jobs through the queue, incremental jobs beside it
SpecJobs == Init /\ [][Tick \/ PushModifiedNext \/ FullNext]_vars

(***************************************************************************)
(* Properties                                                              *)
(***************************************************************************)
Terminal == {"completed", "failed"}

StatusStep == {<<"queued", "processing">>, <<"processing", "completed">>,
               <<"processing", "failed">>}

\* C1: the status of every indexing job, full or incremental, only moves
\* queued -> processing -> completed or failed; a completed or failed job
\* keeps its status and no job returns from processing to queued.
C1_StatusMonotone ==
    [][/\ Len(jobs') >= Len(jobs)
       /\ \A j \in 1..Len(jobs) :
            \/ jobs'[j].status = jobs[j].status
            \/ <<jobs[j].status, jobs'[j].status>> \in StatusStep]_vars

C1_Witness ==
    \E i, j \in 1..Len(jobs) :
        /\ jobs[i].job_type = "full" /\ jobs[i].status = "failed"
        /\ jobs[j].job_type = "incremental" /\ jobs[j].status = "completed"

\* C2: no two indexing jobs for the same collection are in the middle of
\* execution (status processing) at once, whatever their types.
C2_OneWriterPerCollection ==
    \A i, j \in 1..Len(jobs) :
        (i # j /\ jobs[i].status = "processing" /\ jobs[j].status = "processing")
            => jobs[i].collection # jobs[j].collection

C2_Witness ==
    \E i, j \in 1..Len(jobs) :
        /\ i < j
        /\ jobs[i].collection = jobs[j].collection
        /\ jobs[i].job_type # jobs[j].job_type
        /\ jobs[i].status \in Terminal
        /\ jobs[j].status = "processing"

(***************************************************************************)
(* Incremental indexing                                                    *)
(***************************************************************************)
Done == inc.pc = "done"

FullOf(p) == JoinPath(RepoPath, p)

\* The files a changeset asks to index, and those it only deletes
Indexed(run) == {FullOf(p) : p \in run.added \cup run.modified}
OnlyDeleted(run) == {p \in run.deleted : FullOf(p) \notin Indexed(run)}

\* hash, mtime and chunk count of every record of a ledger
Ledger(fi) ==
    [k \in DOMAIN fi |-> <<fi[k].file_hash, fi[k].last_modified,
                           fi[k].chunk_count>>]

NoWrites ==
    /\ inc.upserts = 0
    /\ inc.deletes = 0
    /\ Ledger(file_indexes) = Ledger(inc.before.fi)
    /\ points = inc.before.pts

PointsOf(coll, full_path) == {q \in points[coll] : q.file_path = full_path}

\* C4: when a run that names p as deleted has completed, the collection holds
\* no point of file p.
C4_DeletedFileHasNoPoints ==
    Done => \A p \in OnlyDeleted(inc) : PointsOf(inc.collection, FullOf(p)) = {}

\* C5: after a run re-indexed a file, the ids stored for that file are the ids
\* of its new chunks and no others.
C5_StoredIdsAreNewChunks ==
    (Done /\ hist.quiet) =>
        \A p \in DOMAIN inc.outcome :
            inc.outcome[p] = "indexed" =>
                {q.id : q \in PointsOf(inc.collection, FullOf(p))}
                    = {c.id : c \in Range(ChunkDocument(FullOf(p),
                                                        disk[FullOf(p)].content))}

\* C6: when a run that names p as deleted has completed, the ledger holds no
\* record of p under either key form, and p counts as changed when it is
\* added again.
C6_DeletedFileHasNoRecord ==
    Done => \A p \in OnlyDeleted(inc) :
        /\ p \notin DOMAIN file_indexes
        /\ FullOf(p) \notin DOMAIN file_indexes
        /\ IsFileChanged(file_indexes, disk, FullOf(p), inc.collection)

\* C7: a record is written or changed only for a file whose chunks were
\* embedded and stored; after a failed embedding or upsert the record stays
\* as it was.
C7_RecordOnlyOnSuccess ==
    [][\A k \in DOMAIN file_indexes' :
          (k \notin DOMAIN file_indexes \/ file_indexes'[k] # file_indexes[k])
              => \E p \in DOMAIN inc'.outcome :
                    FullOf(p) = k /\ inc'.outcome[p] = "indexed"]_vars

FailureKinds == {"undecodable", "embed_failed", "upsert_failed"}

C9_FailureIsReported ==
    (Done /\ \E p \in DOMAIN inc.outcome :
                inc.outcome[p] \in {"embed_failed", "upsert_failed"})
        => /\ inc.result.success = FALSE
           /\ "errors" \in DOMAIN inc.result
           /\ inc.result.chunks_indexed = inc.stored

(***************************************************************************)
(* Change detection on its own                                             *)
(***************************************************************************)
APy == RepoPath \o "/a.py"

\* Every state of a.py, and every ledger one earlier indexing of a.py for
\* some collection can have left
DiskStates ==
    {[p \in AbsPaths |->
        IF p = APy THEN [exists |-> TRUE, content |-> c, mtime |-> t]
        ELSE [exists |-> TRUE, content |-> <<"f">>, mtime |-> 1]] :
        c \in Contents, t \in Mtimes}

LedgerStates ==
    {<<>>} \cup
    {UpdateFileIndex(<<>>, d, APy, coll,
                     IF Decodable(d[APy].content)
                     THEN ChunkDocument(APy, d[APy].content) ELSE <<>>, 0) :
        d \in DiskStates, coll \in Collections}

InitChanged ==
    /\ disk \in DiskStates
    /\ file_indexes \in LedgerStates
    /\ index_file = SaveFileIndexes(file_indexes)
    /\ points = [c \in Collections |-> {}]
    /\ jobs = <<>>
    /\ active_jobs = <<>>
    /\ job_queue = <<>>
    /\ now = 0
    /\ running = "loop"
    /\ worker = [pc |-> "get"]
    /\ inc = IdleInc
    /\ hist = NoHist
    /\ edits = 0
    /\ search = NoSearch
    /\ rerank = NoRerank
    /\ chunker = NoChunker
    /\ webhook = NoWebhook

\* One call of _is_file_changed; its return value is kept in inc.changed
CallIsFileChanged(file_path, collection_name) ==
    /\ running = "loop"
    /\ disk[file_path].exists
    /\ inc' = [pc |-> "classified", file_path |-> file_path,
               collection |-> collection_name,
               changed |-> IsFileChanged(file_indexes, disk, file_path,
                                         collection_name)]
    /\ UNCHANGED <<disk, file_indexes, index_file, points, jobs, active_jobs,
                   job_queue, now, running, worker, hist, edits,
                   search, rerank,
                   chunker, webhook>>

SpecChanged ==
    InitChanged /\ [][\E p \in AbsPaths, c \in Collections :
                        CallIsFileChanged(p, c)]_vars

Classified == inc.pc = "classified"

\* C10: _is_file_changed returns true exactly when the file has no record, or
\* the record is for another collection, or the file's mtime is greater than
\* the recorded one, or its SHA-256 differs from the recorded hash; so an
\* equal hash with a newer mtime counts as changed.
C10_ChangedExactlyWhen ==
    Classified =>
        LET k == inc.file_path IN
        inc.changed <=>
            \/ k \notin DOMAIN file_indexes
            \/ file_indexes[k].collection_name # inc.collection
            \/ disk[k].mtime > file_indexes[k].last_modified
            \/ <<"sha256", disk[k].content>> # file_indexes[k].file_hash

C10_Witness ==
    /\ Classified
    /\ inc.file_path \in DOMAIN file_indexes
    /\ file_indexes[inc.file_path].collection_name = inc.collection
    /\ file_indexes[inc.file_path].file_hash
          = <<"sha256", disk[inc.file_path].content>>
    /\ disk[inc.file_path].mtime > file_indexes[inc.file_path].last_modified
    /\ inc.changed

(***************************************************************************)
(* One file indexed into two collections                                   *)
(***************************************************************************)
\* incremental_index called for either collection, the file system at rest
SpecCollections == Init /\ [][IncNext]_vars

\* C11: recording a file as indexed for one collection leaves its record for
\* every other collection untouched: a file classified as unchanged for
\* collection A, with its chunks stored in A, before a file of a run for
\* collection B is processed is still classified as unchanged for A after it.
C11_RecordPerCollection ==
    [][inc.pc = "files" =>
          \A f \in AbsPaths, A \in Collections \ {inc.collection} :
              (/\ disk[f].exists
               /\ PointsOf(A, f) # {}
               /\ ~IsFileChanged(file_indexes, disk, f, A))
                  => ~IsFileChanged(file_indexes', disk', f, A)]_vars

(***************************************************************************)
(* Full index jobs                                                         *)
(***************************************************************************)
\* C12: when a full index job is completed, every file of the repository has
\* its chunks in the job's collection and a record in the ledger, so that it
\* is classified as unchanged for that collection.
C12_FullIndexIndexesEveryFile ==
    \A j \in 1..Len(jobs) :
        (jobs[j].job_type = "full" /\ jobs[j].status = "completed") =>
            \A f \in AbsPaths :
                disk[f].exists =>
                    /\ {c.id : c \in Range(ChunkDocument(f, disk[f].content))}
                           \subseteq {q.id : q \in PointsOf(jobs[j].collection, f)}
                    /\ f \in DOMAIN file_indexes
                    /\ ~IsFileChanged(file_indexes, disk, f, jobs[j].collection)

\* The job life cycle when the event loop keeps running whatever coroutine
\* is ready: the worker task and a started incremental_index go on
SpecJobsFair ==
    /\ SpecJobs
    /\ WF_vars(WorkerGet)
    /\ WF_vars(\E r \in BOOLEAN : WorkerExec(r))
    /\ WF_vars(IncSteps)

\* C13: a full index request is registered as a queued job and put on the
\* queue whatever the other jobs are doing, every queued full job eventually
\* is completed or failed, also when the job before it failed.
C13_QueuedJobsFinish ==
    /\ [][(\E c \in Collections : IndexRepository(c)) =>
            /\ Len(jobs') = Len(jobs) + 1
            /\ jobs'[Len(jobs')].status = "queued"
            /\ Len(job_queue') = Len(job_queue) + 1
            /\ job_queue'[Len(job_queue')].job = Len(jobs')]_vars
    /\ \A j \in 1..MaxJobs :
          (Len(jobs) >= j /\ jobs[j].job_type = "full"
                         /\ jobs[j].status = "queued")
              ~> (Len(jobs) >= j /\ jobs[j].status \in Terminal)

C13_Witness ==
    /\ Len(jobs) = 2
    /\ jobs[1].job_type = "full" /\ jobs[1].status = "failed"
    /\ jobs[2].job_type = "full" /\ jobs[2].status = "queued"
    /\ Len(job_queue) = 1 /\ job_queue[1].job = 2
    /\ running = "worker" /\ worker.pc = "get"

(***************************************************************************)
(* Job registry                                                            *)
(***************************************************************************)
\* EnhancedIndexingService.get_job_status: None for an unknown id, otherwise
\* the fields of the job the registry holds under that id (`job` tells which
\* job object that is)
GetJobStatus(reg, js, job_id) ==
    IF job_id \notin DOMAIN reg
    THEN [found |-> FALSE]
    ELSE [found |-> TRUE, job |-> reg[job_id],
          job_id |-> js[reg[job_id]].job_id,
          job_type |-> js[reg[job_id]].job_type,
          status |-> js[reg[job_id]].status,
          files_count |-> js[reg[job_id]].files_count,
          chunks_count |-> js[reg[job_id]].chunks_count]

\* C14: get_job_status(id) answers with the job the id was issued to, for
\* every job created, and with not-found for an id never issued; no two jobs
\* share an id.
C14_JobIdNamesItsJob ==
    /\ \A j \in 1..Len(jobs) :
          /\ GetJobStatus(active_jobs, jobs, jobs[j].job_id).found
          /\ GetJobStatus(active_jobs, jobs, jobs[j].job_id).job = j
    /\ \A i, j \in 1..Len(jobs) : i # j => jobs[i].job_id # jobs[j].job_id
    /\ ~GetJobStatus(active_jobs, jobs, "full_none_0").found

(***************************************************************************)
(* Hybrid retrieval (services/hybrid_search.py)                            *)
(*                                                                         *)
(* Document ids are numbers.  A fused score is a sum of terms              *)
(* 1/(k + rank + 1); it is kept as an exact fraction <<numerator,          *)
(* denominator>> and compared by cross-multiplication.                     *)
(***************************************************************************)
MaxDocs == 3                     \* ids the vector store can answer with
DefaultK == 60                   \* reciprocal_rank_fusion(..., k: int = 60)

Docs == 1..MaxDocs

Zero == <<0, 1>>
\* RankTerm if ranks were not shifted by one
RankTermUnshifted(k, rank) == <<1, k + rank>>

\* 1.0 / (k + rank + 1)
RankTerm(k, rank) == <<1, k + rank + 1>>
AddScore(a, b) == <<a[1] * b[2] + b[1] * a[2], a[2] * b[2]>>
ScoreGT(a, b) == a[1] * b[2] > b[1] * a[2]
ScoreEq(a, b) == a[1] * b[2] = b[1] * a[2]

Prefix(l, n) == SubSeq(l, 1, IF n < Len(l) THEN n ELSE Len(l))

\* The element of a one-element set; {e(x) : x \in {v}} computes v once
Only(S) == CHOOSE x \in S : TRUE

\* The (id, term) pairs the two loops add to fusion_scores, in the order they
\* add them: enumerate(vector_results[:k]), then enumerate(keyword_results[:k])
\* without the positions outside the corpus (doc_idx counts from 0)
Additions(documents, vector_results, keyword_results, k) ==
    LET vr == Prefix(vector_results, k)
        kr == Prefix(keyword_results, k)
        ranked == [i \in DOMAIN kr |->
                      [doc_idx |-> kr[i][1], term |-> RankTerm(k, i - 1)]]
        InCorpus(e) == e.doc_idx < Len(documents)
        inside == SelectSeq(ranked, InCorpus)
    IN  [i \in DOMAIN vr |-> [id |-> vr[i].id, term |-> RankTerm(k, i - 1)]]
        \o [i \in DOMAIN inside |->
               [id |-> documents[inside[i].doc_idx + 1].id,
                term |-> inside[i].term]]

RECURSIVE SumTerms(_, _)
SumTerms(adds, I) ==
    IF I = {} THEN Zero
    ELSE LET i == CHOOSE j \in I : TRUE
         IN  AddScore(adds[i].term, SumTerms(adds, I \ {i}))

\* fusion_scores after both loops (fusion_scores.get(doc_id, 0) + term): one
\* entry per id, in the order of the first addition, holding the sum of the
\* id's terms
FusionScores(adds) ==
    LET first == {i \in DOMAIN adds :
                    \A j \in 1..(i - 1) : adds[j].id # adds[i].id}
    IN  Only({[n \in 1..Cardinality(first) |->
                 LET i == CHOOSE i \in first : place[i] = n
                 IN  [id |-> adds[i].id,
                      score |-> SumTerms(adds, {j \in DOMAIN adds :
                                                  adds[j].id = adds[i].id})]] :
              place \in {[i \in first |-> Cardinality({j \in first : j < i}) + 1]}})

\* sorted(fusion_scores.items(), key=score, reverse=True): descending and
\* stable, equal scores stay in insertion order
SortDesc(items) ==
    Only({[n \in DOMAIN items |->
             items[CHOOSE i \in DOMAIN items : place[i] = n]] :
          place \in {[i \in DOMAIN items |->
                        Cardinality({j \in DOMAIN items :
                            \/ ScoreGT(items[j].score, items[i].score)
                            \/ ScoreEq(items[j].score, items[i].score) /\ j < i})
                        + 1]}})

\* doc_lookup[doc_id]: the last document of the corpus with that id
DocLookup(documents, doc_id) ==
    documents[CHOOSE i \in DOMAIN documents :
                /\ documents[i].id = doc_id
                /\ \A j \in DOMAIN documents : j > i => documents[j].id # doc_id]

\* The result documents: a copy of the corpus document of every ranked id
\* that doc_lookup knows, with its hybrid_score
CombinedResults(documents, ranked_docs) ==
    LET InLookup(e) == \E i \in DOMAIN documents : documents[i].id = e.id
    IN  Only({[i \in DOMAIN kept |->
                 [id |-> DocLookup(documents, kept[i].id).id,
                  content |-> DocLookup(documents, kept[i].id).content,
                  hybrid_score |-> kept[i].score]] :
              kept \in {SelectSeq(ranked_docs, InLookup)}})

\* HybridSearchService.reciprocal_rank_fusion
ReciprocalRankFusion(documents, vector_results, keyword_results, k) ==
    Only({CombinedResults(documents, ranked_docs) :
          ranked_docs \in
            {SortDesc(fusion_scores) :
             fusion_scores \in
               {FusionScores(adds) :
                adds \in {Additions(documents, vector_results,
                                    keyword_results, k)}}}})

(***************************************************************************)
(* Rank fusion on its own                                                  *)
(***************************************************************************)
Doc(n) == [id |-> n, content |-> <<"text", n>>]

\* self.documents: never built, or built from two or three documents
Corpora == {<<>>, <<Doc(1), Doc(2)>>, <<Doc(2), Doc(1), Doc(3)>>}

\* Sequences without repetition
Perms(S, n) == {l \in [1..n -> S] : \A i, j \in 1..n : i # j => l[i] # l[j]}
ShortLists(S) == UNION {Perms(S, n) : n \in 0..Cardinality(S)}

\* A list one longer than k: y, then ids outside every corpus, then x
LongLists ==
    {[i \in 1..(DefaultK + 1) |->
        IF i = 1 THEN y ELSE IF i = DefaultK + 1 THEN x ELSE 100 + i] :
        <<x, y>> \in {d \in Docs \X Docs : d[1] # d[2]}}

\* What QdrantClient.search returns: distinct ids by descending score
VectorResults ==
    {[i \in DOMAIN l |-> [id |-> l[i], score |-> 95 - i]] :
        l \in ShortLists(Docs) \cup LongLists}

\* What keyword_search returns: distinct corpus positions (from 0) with
\* descending positive BM25 scores
KeywordResults(documents) ==
    {[i \in DOMAIN l |-> <<l[i], 10 - i>>] :
        l \in ShortLists(0..(Len(documents) - 1))}

InitFusion ==
    /\ disk = [p \in AbsPaths |-> NoFile]
    /\ file_indexes = <<>>
    /\ index_file = <<>>
    /\ points = [c \in Collections |-> {}]
    /\ jobs = <<>>
    /\ active_jobs = <<>>
    /\ job_queue = <<>>
    /\ now = 0
    /\ running = "loop"
    /\ worker = [pc |-> "get"]
    /\ inc = IdleInc
    /\ hist = NoHist
    /\ edits = 0
    /\ \E c \in Corpora, v \in VectorResults :
         \E kw \in KeywordResults(c) :
            search = [pc |-> "input", documents |-> c, vector_results |-> v,
                      keyword_results |-> kw]
    /\ rerank = NoRerank
    /\ chunker = NoChunker
    /\ webhook = NoWebhook

\* One call of reciprocal_rank_fusion with the default k
CallFusion ==
    /\ search.pc = "input"
    /\ search' = [pc |-> "fused", documents |-> search.documents,
                  vector_results |-> search.vector_results,
                  keyword_results |-> search.keyword_results,
                  combined |-> ReciprocalRankFusion(search.documents,
                                                    search.vector_results,
                                                    search.keyword_results,
                                                    DefaultK)]
    /\ UNCHANGED <<disk, file_indexes, index_file, points, jobs, active_jobs,
                   job_queue, now, running, worker, inc, hist, edits, rerank,
                   chunker, webhook>>

SpecFusion == InitFusion /\ [][CallFusion]_vars

Fused == search.pc = "fused"

Contains(ids, id) == \E i \in DOMAIN ids : ids[i] = id
RankIn(ids, id) == (CHOOSE i \in DOMAIN ids : ids[i] = id) - 1

\* The ids of the two input lists, rank by rank
VectorIds == [i \in DOMAIN search.vector_results |-> search.vector_results[i].id]
KeywordIds ==
    [i \in DOMAIN search.keyword_results |->
        search.documents[search.keyword_results[i][1] + 1].id]

\* Sum of 1/(60 + rank + 1) over the lists that contain id
RankSum(vids, kids, id) ==
    AddScore(IF Contains(vids, id) THEN <<1, 60 + RankIn(vids, id) + 1>> ELSE Zero,
             IF Contains(kids, id) THEN <<1, 60 + RankIn(kids, id) + 1>> ELSE Zero)

\* The returned documents carry the rank sums of lists vids and kids, in
\* descending order, ties in order of first occurrence, and a document of
\* both lists beats a document of one list at one of its ranks
FusionOf(vids, kids) ==
    LET out == search.combined
        both(id) == Contains(vids, id) /\ Contains(kids, id)
        sameRank(a, b) ==
            \/ Contains(vids, b) /\ RankIn(vids, b) \in {RankIn(vids, a), RankIn(kids, a)}
            \/ Contains(kids, b) /\ RankIn(kids, b) \in {RankIn(vids, a), RankIn(kids, a)}
    IN  /\ \A i \in DOMAIN out :
              ScoreEq(out[i].hybrid_score, RankSum(vids, kids, out[i].id))
        /\ \A i, j \in DOMAIN out :
              i < j =>
                  /\ ~ScoreGT(out[j].hybrid_score, out[i].hybrid_score)
                  /\ (ScoreEq(out[i].hybrid_score, out[j].hybrid_score)
                        => (RankIn(vids \o kids, out[i].id)
                               < RankIn(vids \o kids, out[j].id)))
        /\ \A i, j \in DOMAIN out :
              (both(out[i].id) /\ ~both(out[j].id) /\ sameRank(out[i].id, out[j].id))
                  => ScoreGT(out[i].hybrid_score, out[j].hybrid_score)

\* C15 as stated: the fused score of a document is the sum over every input
\* list that contains it of 1/(60 + rank + 1); the result is in descending
\* score order, ties in first-occurrence order, and a document of both lists
\* scores above a document of one list at the same rank.
C15_FusionIsRankSum == Fused => FusionOf(VectorIds, KeywordIds)

\* C15 amended: the same, where only the first 60 entries of each list count.
C15_FusionIsRankSumOfFirstK ==
    Fused => FusionOf(Prefix(VectorIds, DefaultK), Prefix(KeywordIds, DefaultK))

\* A list longer than k whose last document comes back through the keyword
\* list and ties with the first document of the vector list
C15_Witness ==
    /\ Fused
    /\ Len(search.vector_results) > DefaultK
    /\ \E i \in 1..(Len(search.combined) - 1) :
          /\ search.combined[i].id = VectorIds[1]
          /\ search.combined[i + 1].id = VectorIds[DefaultK + 1]
          /\ ScoreEq(search.combined[i].hybrid_score,
                     search.combined[i + 1].hybrid_score)

(***************************************************************************)
(* hybrid_search and search_with_expansion                                 *)
(***************************************************************************)
MaxTopK == 2                     \* largest top_k asked for
MaxExpandList == 1               \* longest list a query variant gets back

\* What CrossEncoder.predict does with the documents: it raises, or scores
\* them (here by id, ascending or descending)
Predictions ==
    {[ok |-> FALSE]} \cup
    {[ok |-> TRUE, score |-> [n \in 1..3 |-> n]],
     [ok |-> TRUE, score |-> [n \in 1..3 |-> 0 - n]]}

\* HybridSearchService.rerank_with_cross_encoder: the first 50 documents get
\* a cross_encoder_score, the sort is descending and stable, a failure keeps
\* the order
RerankWithCrossEncoder(documents, predict, top_k) ==
    IF ~predict.ok THEN Prefix(documents, top_k)
    ELSE LET items == [i \in DOMAIN documents |->
                         [doc |-> documents[i],
                          score |-> IF i <= 50
                                    THEN <<predict.score[documents[i].id], 1>>
                                    ELSE Zero]]
         IN  Only({Prefix([i \in DOMAIN sorted |-> sorted[i].doc], top_k) :
                   sorted \in {SortDesc(items)}})

\* hybrid_search, lines 209-215: the score of the first vector result with
\* that id
FindVectorScore(vector_results, id) ==
    IF \E i \in DOMAIN vector_results : vector_results[i].id = id
    THEN vector_results[CHOOSE i \in DOMAIN vector_results :
            /\ vector_results[i].id = id
            /\ \A j \in 1..(i - 1) : vector_results[j].id # id].score
    ELSE 0

\* hybrid_search, lines 217-223: the score of the first keyword result whose
\* document has that id
FindKeywordScore(documents, keyword_results, id) ==
    LET Hit(i) == /\ keyword_results[i][1] < Len(documents)
                  /\ documents[keyword_results[i][1] + 1].id = id
    IN  IF \E i \in DOMAIN keyword_results : Hit(i)
        THEN keyword_results[CHOOSE i \in DOMAIN keyword_results :
                /\ Hit(i)
                /\ \A j \in 1..(i - 1) : ~Hit(j)][2]
        ELSE 0

\* hybrid_search, lines 205-236: the SearchResult objects
SearchResults(documents, vector_results, keyword_results, combined, top_k) ==
    [i \in DOMAIN Prefix(combined, top_k) |->
        [id |-> combined[i].id,
         content |-> combined[i].content,
         vector_score |-> FindVectorScore(vector_results, combined[i].id),
         keyword_score |-> FindKeywordScore(documents, keyword_results,
                                            combined[i].id),
         hybrid_score |-> combined[i].hybrid_score]]

\* HybridSearchService.hybrid_search.  failure names what failed during the
\* vector search: embed_query raises and vector_search returns [], or
\* QdrantClient.search catches its own error and returns [].
HybridSearchCall(svc, top_k, failure, v, kw, predict) ==
    LET vector_results == IF failure = "none" THEN v ELSE <<>>
        keyword_results == IF svc.bm25_index THEN kw ELSE <<>>
    IN  Only({Only({[top_k |-> top_k, failed |-> failure # "none",
                     vector_results |-> vector_results,
                     keyword_results |-> keyword_results,
                     fused |-> fused,
                     results |-> SearchResults(svc.documents, vector_results,
                                               keyword_results, combined,
                                               top_k),
                     raised |-> FALSE] :
                    combined \in
                      {IF svc.cross_encoder /\ Len(fused) > 1
                       THEN RerankWithCrossEncoder(fused, predict, top_k)
                       ELSE fused}}) :
              fused \in {ReciprocalRankFusion(svc.documents, vector_results,
                                              keyword_results, DefaultK)}})

Service(documents, bm25_index, cross_encoder) ==
    [pc |-> "idle", documents |-> documents, bm25_index |-> bm25_index,
     cross_encoder |-> cross_encoder]

\* After __init__: no corpus, no BM25 index, the cross-encoder loaded or not
InitSearch ==
    /\ disk = [p \in AbsPaths |-> NoFile]
    /\ file_indexes = <<>>
    /\ index_file = <<>>
    /\ points = [c \in Collections |-> {}]
    /\ jobs = <<>>
    /\ active_jobs = <<>>
    /\ job_queue = <<>>
    /\ now = 0
    /\ running = "loop"
    /\ worker = [pc |-> "get"]
    /\ inc = IdleInc
    /\ hist = NoHist
    /\ edits = 0
    /\ \E ce \in BOOLEAN : search = Service(<<>>, FALSE, ce)
    /\ rerank = NoRerank
    /\ chunker = NoChunker
    /\ webhook = NoWebhook

\* build_keyword_index: the corpus is replaced first; if BM25Okapi raises the
\* index is None
BuildKeywordIndex(documents, ok) ==
    /\ search.pc = "idle"
    /\ search' = Service(documents, ok, search.cross_encoder)
    /\ UNCHANGED <<disk, file_indexes, index_file, points, jobs, active_jobs,
                   job_queue, now, running, worker, inc, hist, edits, rerank,
                   chunker, webhook>>

\* One call of hybrid_search; its inputs and its outcome are kept in
\* search.call
HybridSearch(top_k, failure, v, kw, predict) ==
    /\ search.pc = "idle"
    /\ Len(v) <= top_k * 2
    /\ Len(kw) <= top_k * 2
    /\ search' = [pc |-> "searched", documents |-> search.documents,
                  bm25_index |-> search.bm25_index,
                  cross_encoder |-> search.cross_encoder,
                  call |-> HybridSearchCall(search, top_k, failure, v, kw,
                                            predict)]
    /\ UNCHANGED <<disk, file_indexes, index_file, points, jobs, active_jobs,
                   job_queue, now, running, worker, inc, hist, edits, rerank,
                   chunker, webhook>>

\* The caller has taken the result
SearchReturn ==
    /\ search.pc \in {"searched", "expanded"}
    /\ search' = Service(search.documents, search.bm25_index,
                         search.cross_encoder)
    /\ UNCHANGED <<disk, file_indexes, index_file, points, jobs, active_jobs,
                   job_queue, now, running, worker, inc, hist, edits, rerank,
                   chunker, webhook>>

\* expand_query on a one-word query: the query, then the query with the
\* word replaced by each of its expansions (two rows of the table)
Expansions ==
    ("class" :> <<"object", "type", "struct">>) @@
    ("error" :> <<"exception", "issue", "problem", "bug">>)

Queries == {<<"parse">>, <<"class">>}

ExpandQuery(query) ==
    IF query[1] \in DOMAIN Expansions
    THEN <<query>> \o [i \in DOMAIN Expansions[query[1]] |->
                          <<Expansions[query[1]][i]>>]
    ELSE <<query>>

\* search_with_expansion, lines 318-323
ExpandBegin(query, top_k) ==
    /\ search.pc = "idle"
    /\ search' = [pc |-> "expanding", documents |-> search.documents,
                  bm25_index |-> search.bm25_index,
                  cross_encoder |-> search.cross_encoder,
                  exp |-> [expanded_queries |-> ExpandQuery(query),
                           top_k |-> top_k, all_results |-> <<>>,
                           failed |-> FALSE]]
    /\ UNCHANGED <<disk, file_indexes, index_file, points, jobs, active_jobs,
                   job_queue, now, running, worker, inc, hist, edits, rerank,
                   chunker, webhook>>

\* lines 326-335: hybrid_search for the next variant, then the results with
\* an id not seen before are added
ExpandVariant(failure, v, kw, predict) ==
    /\ search.pc = "expanding"
    /\ search.exp.expanded_queries # <<>>
    /\ Len(v) <= search.exp.top_k * 2 /\ Len(v) <= MaxExpandList
    /\ Len(kw) <= search.exp.top_k * 2 /\ Len(kw) <= MaxExpandList
    /\ LET results == HybridSearchCall(search, search.exp.top_k, failure, v,
                                       kw, predict).results
           seen_ids == {search.exp.all_results[i].id :
                           i \in DOMAIN search.exp.all_results}
           Unseen(r) == r.id \notin seen_ids
       IN  search' = [search EXCEPT
              !.exp.expanded_queries = Tail(@),
              !.exp.all_results = @ \o SelectSeq(results, Unseen),
              !.exp.failed = @ \/ failure # "none"]
    /\ UNCHANGED <<disk, file_indexes, index_file, points, jobs, active_jobs,
                   job_queue, now, running, worker, inc, hist, edits, rerank,
                   chunker, webhook>>

\* lines 337-343: sort by hybrid_score, descending and stable, and cut.
\* Nothing in the try block can raise (expand_query and hybrid_search catch
\* every exception), so the fallback of line 347 is never taken.
ExpandFinish ==
    /\ search.pc = "expanding"
    /\ search.exp.expanded_queries = <<>>
    /\ LET items == [i \in DOMAIN search.exp.all_results |->
                        [doc |-> search.exp.all_results[i],
                         score |-> search.exp.all_results[i].hybrid_score]]
       IN  search' = [pc |-> "expanded", documents |-> search.documents,
                      bm25_index |-> search.bm25_index,
                      cross_encoder |-> search.cross_encoder,
                      call |-> [top_k |-> search.exp.top_k,
                                failed |-> search.exp.failed,
                                results |->
                                   Only({Prefix([i \in DOMAIN sorted |->
                                                    sorted[i].doc],
                                                search.exp.top_k) :
                                         sorted \in {SortDesc(items)}}),
                                raised |-> FALSE]]
    /\ UNCHANGED <<disk, file_indexes, index_file, points, jobs, active_jobs,
                   job_queue, now, running, worker, inc, hist, edits, rerank,
                   chunker, webhook>>

TopKs == 1..MaxTopK
Failures == {"none", "embedding", "store"}

\* The answers the store can give to a search with limit top_k * 2
Answers == {v \in VectorResults : Len(v) <= MaxTopK * 2}

\* The environment of one hybrid_search: a failed vector search has no
\* answer, a missing BM25 index no keyword hits, a missing cross-encoder no
\* prediction
Environments(svc) ==
    {e \in [failure : Failures, v : Answers,
            kw : KeywordResults(svc.documents), predict : Predictions] :
        /\ e.failure # "none" => e.v = <<>>
        /\ ~svc.bm25_index => e.kw = <<>>
        /\ ~svc.cross_encoder => ~e.predict.ok}

SearchNext ==
    \/ \E c \in Corpora, ok \in BOOLEAN : BuildKeywordIndex(c, ok)
    \/ \E top_k \in TopKs, e \in Environments(search) :
          HybridSearch(top_k, e.failure, e.v, e.kw, e.predict)
    \/ \E q \in Queries, top_k \in TopKs : ExpandBegin(q, top_k)
    \/ \E e \in Environments(search) :
          ExpandVariant(e.failure, e.v, e.kw, e.predict)
    \/ ExpandFinish
    \/ SearchReturn

SpecSearch == InitSearch /\ [][SearchNext]_vars

Searched == search.pc = "searched"
Answered == search.pc \in {"searched", "expanded"}

\* The ids the two searches of the call returned
VectorHits ==
    {search.call.vector_results[i].id : i \in DOMAIN search.call.vector_results}
KeywordHits ==
    {search.documents[search.call.keyword_results[i][1] + 1].id :
        i \in DOMAIN search.call.keyword_results}

\* C16: every id returned by the vector search or by the keyword search is
\* among the fused candidates, no two results have the same id, and each
\* result carries the vector score and the keyword score its document had in
\* the two lists (0 where absent) and its fused score.
C16_EveryHitIsACandidate ==
    /\ Searched =>
         LET c == search.call IN
         /\ VectorHits \cup KeywordHits
               \subseteq {c.fused[i].id : i \in DOMAIN c.fused}
         /\ \A i \in DOMAIN c.results :
               LET r == c.results[i] IN
               /\ \A j \in DOMAIN c.vector_results :
                     c.vector_results[j].id = r.id
                         => r.vector_score = c.vector_results[j].score
               /\ r.id \notin VectorHits => r.vector_score = 0
               /\ \A j \in DOMAIN c.keyword_results :
                     search.documents[c.keyword_results[j][1] + 1].id = r.id
                         => r.keyword_score = c.keyword_results[j][2]
               /\ r.id \notin KeywordHits => r.keyword_score = 0
               /\ \E j \in DOMAIN c.fused :
                     /\ c.fused[j].id = r.id
                     /\ c.fused[j].hybrid_score = r.hybrid_score
    /\ Answered =>
         \A i, j \in DOMAIN search.call.results :
            i # j => search.call.results[i].id # search.call.results[j].id

\* C17: when the embedding provider or the vector store failed during a
\* search, hybrid_search and search_with_expansion raise nothing and return
\* an empty result set together with an error indication.
C17_SearchFailureIsReported ==
    (Answered /\ search.call.failed) =>
        /\ ~search.call.raised
        /\ search.call.results = <<>>
        /\ "error" \in DOMAIN search.call

\* ------------------------------------------------------------------------
\* Re-ranking (services/reranking.py)
\*
\* Scores, similarities and confidences are fixed-point thousandths
\* (0.7 is 700); the rounding of floating point is not modelled.
\* ------------------------------------------------------------------------

MaxResults == 3                  \* longest result list handed to rerank_results
MaxRerankTopK == 3               \* largest top_k / max_results asked for

Larger(a, b) == IF a >= b THEN a ELSE b
Smaller(a, b) == IF a <= b THEN a ELSE b

\* words of one length, so that no word is part of another one
Word(n) == "w" \o ToString(10 + n)
Text(a, b) == [i \in 1..(b - a + 1) |-> Word(a + i - 1)]

\* str.lower on a word
Lower(w) == IF w = "W11" THEN "w11" ELSE IF w = "PY" THEN "py" ELSE w
LowerWords(text) == [i \in DOMAIN text |-> Lower(text[i])]

\* len(content): the words (three characters each) joined by single blanks
ContentLength(content) ==
    IF content = <<>> THEN 0 ELSE 4 * Len(content) - 1

\* `query_lower in content_lower` on texts of equally long words
IsInfix(query, content) ==
    \E s \in 0..Len(content) :
        /\ s + Len(query) <= Len(content)
        /\ \A i \in DOMAIN query : content[s + i] = query[i]

\* ReRankingService._calculate_confidence
CalculateConfidenceNoFloor(score, total_results) ==
    LET normalized_score == Larger(0, Smaller(1000, score))
        result_factor == 1000 - total_results * 10
        confidence == (normalized_score * (700000 + 300 * result_factor))
                          \div 1000000
    IN  Smaller(1000, confidence)

CalculateConfidence(score, total_results) ==
    LET normalized_score == Larger(0, Smaller(1000, score))
        result_factor == 1000 - total_results * 10
        confidence == (normalized_score * (700000 + 300 * result_factor))
                          \div 1000000
    IN  Larger(100, Smaller(1000, confidence))

\* list.sort(key=rerank_score, reverse=True): descending and stable
SortReranked(items) ==
    Only({[n \in DOMAIN items |->
             items[CHOOSE i \in DOMAIN items : place[i] = n]] :
          place \in {[i \in DOMAIN items |->
                        Cardinality({j \in DOMAIN items :
                            \/ items[j].rerank_score > items[i].rerank_score
                            \/ /\ items[j].rerank_score = items[i].rerank_score
                               /\ j < i})
                        + 1]}})

ReRankedResult(result, score, total_results, features) ==
    [original_result |-> result,
     rerank_score |-> score,
     confidence |-> CalculateConfidence(score, total_results),
     relevance_features |-> features]

\* ReRankingService._basic_rerank
BasicRerank(results, top_k) ==
    Prefix(SortReranked(
               [i \in DOMAIN results |->
                  ReRankedResult(results[i], results[i].hybrid_score,
                                 Len(results),
                                 [vector_score |-> results[i].vector_score,
                                  keyword_score |-> results[i].keyword_score,
                                  hybrid_score |-> results[i].hybrid_score])]),
           top_k)

\* ReRankingService._rerank_with_cross_encoder; scores is what predict
\* answers for the (query, content) pair of each result, or a failure
RerankWithCrossEncoderScores(models, results, top_k, scores) ==
    IF ~models \/ Len(results) < 2 THEN BasicRerank(results, top_k)
    ELSE IF ~scores.ok THEN BasicRerank(results, top_k)
    ELSE Prefix(SortReranked(
                    [i \in DOMAIN results |->
                       ReRankedResult(results[i], scores.of[results[i].id],
                                      Len(results),
                                      [cross_encoder_score |->
                                           scores.of[results[i].id]])]),
                top_k)

\* ReRankingService._rerank_with_semantic_similarity; similarities is the
\* cosine of each result's embedding with the query's, or a failure
RerankWithSemanticSimilarity(models, results, top_k, similarities) ==
    IF ~models \/ Len(results) < 2 THEN BasicRerank(results, top_k)
    ELSE IF ~similarities.ok THEN BasicRerank(results, top_k)
    ELSE Prefix(SortReranked(
                    [i \in DOMAIN results |->
                       ReRankedResult(results[i],
                                      similarities.of[results[i].id],
                                      Len(results),
                                      [semantic_similarity |->
                                           similarities.of[results[i].id]])]),
                top_k)

\* file_path.lower().split(".")[-1]; a path is the list of its parts between
\* the dots
FileExt(file_path) == Lower(file_path[Len(file_path)])

code_extensions == {"py", "js", "ts", "java", "cpp", "c", "go", "rs"}

\* _extract_relevance_features divides by len(query_words)
FeaturesRaise(query, result) ==
    result.content # <<>> /\ query = <<>>

\* ReRankingService._extract_relevance_features; query is query.split()
ExtractRelevanceFeatures(query, result) ==
    LET query_words == LowerWords(query)
        content_words == LowerWords(result.content)
        matches == Cardinality({i \in DOMAIN query_words :
                                  query_words[i] \in Range(content_words)})
        content_length == ContentLength(result.content)
    IN  [exact_match |-> IF IsInfix(query_words, content_words)
                         THEN 1000 ELSE 0,
         keyword_density |-> IF content_words # <<>>
                             THEN (matches * 1000) \div Len(query_words)
                             ELSE 0,
         position_bonus |-> Larger(0, 1000 - result.start_line),
         length_bonus |-> IF content_length <= 200
                          THEN (content_length * 1000) \div 200
                          ELSE 200000 \div content_length,
         file_type_bonus |-> IF FileExt(result.file_path) \in code_extensions
                             THEN 1000 ELSE 800,
         vector_score |-> result.vector_score]

\* the weighted sum of _rerank_with_features
WeightedScore(features) ==
    (features.exact_match * 30 + features.keyword_density * 20
     + features.position_bonus * 15 + features.length_bonus * 10
     + features.file_type_bonus * 15 + features.vector_score * 10) \div 100

\* ReRankingService._rerank_with_features
RerankWithFeatures(query, results, top_k) ==
    IF \E i \in DOMAIN results : FeaturesRaise(query, results[i])
    THEN BasicRerank(results, top_k)
    ELSE Prefix(SortReranked(
                    [i \in DOMAIN results |->
                       Only({ReRankedResult(results[i], WeightedScore(f),
                                            Len(results), f) :
                             f \in {ExtractRelevanceFeatures(query,
                                                             results[i])}})]),
                top_k)

\* the weighted average of _hybrid_rerank over the score lists that are not
\* empty (weights 0.4, 0.3, 0.3)
WeightedAverage(cross, semantic, feature, fallback) ==
    LET total == (IF cross.has THEN cross.score * 4 ELSE 0)
                 + (IF semantic.has THEN semantic.score * 3 ELSE 0)
                 + (IF feature.has THEN feature.score * 3 ELSE 0)
        weight == (IF cross.has THEN 4 ELSE 0)
                  + (IF semantic.has THEN 3 ELSE 0)
                  + (IF feature.has THEN 3 ELSE 0)
    IN  IF weight > 0 THEN total \div weight ELSE fallback

Signal(list, i) ==
    IF list # <<>> THEN [has |-> TRUE, score |-> list[i].rerank_score]
    ELSE [has |-> FALSE]

\* all_features of _hybrid_rerank: a later key replaces an earlier one
AllFeatures(weighted_score, cross, semantic, feature_results, i) ==
    (IF feature_results # <<>> THEN feature_results[i].relevance_features
     ELSE <<>>)
    @@ (IF semantic.has THEN [semantic_similarity |-> semantic.score]
        ELSE <<>>)
    @@ (IF cross.has THEN [cross_encoder_score |-> cross.score] ELSE <<>>)
    @@ [hybrid_score |-> weighted_score]

\* ReRankingService._hybrid_rerank: the three methods are run on the whole
\* list and their score lists, in the order the methods return them, are
\* read at the input position of each result
HybridRerank(models, query, results, top_k, scores, similarities) ==
    Only({Prefix(SortReranked(
              [i \in DOMAIN results |->
                 Only({ReRankedResult(results[i], s.weighted, Len(results),
                           AllFeatures(s.weighted, s.cross, s.semantic,
                                       feature_results, i)) :
                       s \in {Only({[cross |-> c, semantic |-> m,
                                     weighted |-> WeightedAverage(c, m, f,
                                                    results[i].hybrid_score)] :
                                    c \in {Signal(cross_encoder_results, i)},
                                    m \in {Signal(semantic_results, i)},
                                    f \in {Signal(feature_results, i)}})}})]),
              top_k) :
          cross_encoder_results \in
              {IF models /\ Len(results) > 1
               THEN RerankWithCrossEncoderScores(models, results,
                                                 Len(results), scores)
               ELSE <<>>},
          semantic_results \in
              {IF models /\ Len(results) > 1
               THEN RerankWithSemanticSimilarity(models, results,
                                                 Len(results), similarities)
               ELSE <<>>},
          feature_results \in
              {RerankWithFeatures(query, results, Len(results))}})

Methods ==
    {"cross_encoder", "semantic_similarity", "feature_based", "hybrid",
     "none"}

\* ReRankingService.rerank_results
RerankResultsCall(models, query, results, top_k, method, scores, similarities) ==
    IF results = <<>> THEN <<>>
    ELSE IF method = "cross_encoder" /\ models
    THEN RerankWithCrossEncoderScores(models, results, top_k, scores)
    ELSE IF method = "semantic_similarity" /\ models
    THEN RerankWithSemanticSimilarity(models, results, top_k, similarities)
    ELSE IF method = "feature_based"
    THEN RerankWithFeatures(query, results, top_k)
    ELSE IF method = "hybrid"
    THEN HybridRerank(models, query, results, top_k, scores, similarities)
    ELSE BasicRerank(results, top_k)

\* the word overlap of _calculate_content_similarity
WordOverlap(content1, content2) ==
    LET words1 == Range(LowerWords(content1))
        words2 == Range(LowerWords(content2))
    IN  IF words1 = {} \/ words2 = {} THEN 0
        ELSE (Cardinality(words1 \cap words2) * 1000)
                 \div Cardinality(words1 \cup words2)

\* ReRankingService._calculate_content_similarity; cosine is what the
\* sentence model gives for the two results, or a failure
CalculateContentSimilarity(models, result, selected, cosine) ==
    IF ~models \/ ~cosine.ok
    THEN WordOverlap(result.original_result.content,
                     selected.original_result.content)
    ELSE cosine.of[{result.original_result.id, selected.original_result.id}]

\* the inner loop of diversify_results
IsSimilarToLast(models, result, diversified, diversity_threshold, cosine) ==
    CalculateContentSimilarity(models, result, diversified[Len(diversified)],
                               cosine) > diversity_threshold

IsSimilar(models, result, diversified, diversity_threshold, cosine) ==
    \E n \in DOMAIN diversified :
        CalculateContentSimilarity(models, result, diversified[n], cosine)
            > diversity_threshold

\* the outer loop of diversify_results, from results[i] on
RECURSIVE DiversifyFrom(_, _, _, _, _, _, _)
DiversifyFrom(models, results, i, diversified, diversity_threshold, max_results, cosine) ==
    IF i > Len(results) \/ Len(diversified) >= max_results THEN diversified
    ELSE DiversifyFrom(models, results, i + 1,
             IF IsSimilar(models, results[i], diversified,
                          diversity_threshold, cosine)
             THEN diversified ELSE Append(diversified, results[i]),
             diversity_threshold, max_results, cosine)

\* ReRankingService.diversify_results
DiversifyResultsCall(models, results, diversity_threshold, max_results, cosine) ==
    IF Len(results) <= 1 THEN results
    ELSE DiversifyFrom(models, results, 2, <<results[1]>>,
                       diversity_threshold, max_results, cosine)

\* ---- rerank_results and diversify_results as calls on one service ----

\* SearchResult
Hit(id, content, file_path, start_line, vector_score, keyword_score, hybrid_score) ==
    [id |-> id, content |-> content, file_path |-> file_path,
     start_line |-> start_line, vector_score |-> vector_score,
     keyword_score |-> keyword_score, hybrid_score |-> hybrid_score]

Hits ==
    <<Hit(1, Text(1, 10), <<"src/a", "py">>, 1, 900, 500, 32),
      Hit(2, Text(1, 7), <<"docs/b", "md">>, 40, 800, 0, 16),
      Hit(3, <<"W11", Word(2)>>, <<"src/c", "PY">>, 1200, 700, 900, 16),
      Hit(4, Text(1, 9), <<"src/d", "ts">>, 10, 850, 0, 24),
      Hit(5, Text(1, 51), <<"README">>, 1, 0, 300, 8)>>

HitOrders == {<<1, 4, 2, 3, 5>>, <<3, 2, 1, 5, 4>>}

\* the result lists of a search: the first hits of one of the orders
ResultLists ==
    {[i \in 1..n |-> Hits[o[i]]] : o \in HitOrders, n \in 0..MaxResults}

RerankQueries == {<<>>, <<Word(1)>>, <<"W11", Word(2)>>}

RerankTopKs == 1..MaxRerankTopK

\* what cross_encoder.predict can answer for the hits: unbounded scores, or
\* an exception
CrossEncoderScores ==
    {[ok |-> FALSE],
     [ok |-> TRUE, of |-> <<900, 0 - 2000, 300, 1500, 0>>]}

\* what cosine_similarity can answer for the hits and the query
SemanticSimilarities ==
    {[ok |-> FALSE],
     [ok |-> TRUE, of |-> <<200, 800, 500, 0 - 100, 950>>]}

\* what cosine_similarity can answer for two contents
Cosines ==
    {[ok |-> FALSE],
     [ok |-> TRUE,
      of |-> [p \in {{a, b} : a, b \in DOMAIN Hits} |->
                IF Cardinality(p) = 1 THEN 1000
                ELSE LET sum == Only({a + b : <<a, b>> \in
                                        {d \in p \X p : d[1] < d[2]}})
                     IN  <<500, 900, 200, 500, 800, 100, 500>>[sum - 2]]]}

DiversityThresholds == {500, 700}

\* the answers of the models that a call can meet: none when the models
\* are not loaded or the method does not ask them
RerankEnvironments(models, method, results) ==
    {[scores |-> s, similarities |-> m] :
       s \in IF models /\ Len(results) > 1
                /\ method \in {"cross_encoder", "hybrid"}
             THEN CrossEncoderScores ELSE {[ok |-> FALSE]},
       m \in IF models /\ Len(results) > 1
                /\ method \in {"semantic_similarity", "hybrid"}
             THEN SemanticSimilarities ELSE {[ok |-> FALSE]}}

\* ReRankingService.__init__ and _initialize_models: both models are
\* loaded, or neither
RerankService(models) == [pc |-> "idle", models |-> models]

InitRerank ==
    /\ disk = [p \in AbsPaths |-> NoFile]
    /\ file_indexes = <<>>
    /\ index_file = <<>>
    /\ points = [c \in Collections |-> {}]
    /\ jobs = <<>>
    /\ active_jobs = <<>>
    /\ job_queue = <<>>
    /\ now = 0
    /\ running = "loop"
    /\ worker = [pc |-> "get"]
    /\ inc = IdleInc
    /\ hist = NoHist
    /\ edits = 0
    /\ search = NoSearch
    /\ \E models \in BOOLEAN : rerank = RerankService(models)
    /\ chunker = NoChunker
    /\ webhook = NoWebhook

RerankResults(query, results, top_k, method, scores, similarities) ==
    /\ rerank.pc = "idle"
    /\ rerank' = [pc |-> "reranked", models |-> rerank.models,
                  query |-> query, results |-> results, top_k |-> top_k,
                  method |-> method, scores |-> scores,
                  similarities |-> similarities,
                  out |-> RerankResultsCall(rerank.models, query, results,
                                            top_k, method, scores,
                                            similarities)]
    /\ UNCHANGED <<disk, file_indexes, index_file, points, jobs, active_jobs,
                   job_queue, now, running, worker, inc, hist, edits, search,
                   chunker, webhook>>

\* diversify_results on the re-ranked list
DiversifyResults(diversity_threshold, max_results, cosine) ==
    /\ rerank.pc = "reranked"
    /\ rerank' = [rerank EXCEPT !.pc = "diversified"]
                 @@ [diversity_threshold |-> diversity_threshold,
                     max_results |-> max_results, cosine |-> cosine,
                     diversified |->
                         DiversifyResultsCall(rerank.models, rerank.out,
                                              diversity_threshold,
                                              max_results, cosine)]
    /\ UNCHANGED <<disk, file_indexes, index_file, points, jobs, active_jobs,
                   job_queue, now, running, worker, inc, hist, edits, search,
                   chunker, webhook>>

RerankReturn ==
    /\ rerank.pc \in {"reranked", "diversified"}
    /\ rerank' = RerankService(rerank.models)
    /\ UNCHANGED <<disk, file_indexes, index_file, points, jobs, active_jobs,
                   job_queue, now, running, worker, inc, hist, edits, search,
                   chunker, webhook>>

RerankNext ==
    \/ \E query \in RerankQueries, results \in ResultLists,
          top_k \in RerankTopKs, method \in Methods :
          \E e \in RerankEnvironments(rerank.models, method, results) :
              RerankResults(query, results, top_k, method, e.scores,
                            e.similarities)
    \/ \E diversity_threshold \in DiversityThresholds,
          max_results \in 0..MaxRerankTopK,
          cosine \in IF rerank.models THEN Cosines ELSE {[ok |-> FALSE]} :
          DiversifyResults(diversity_threshold, max_results, cosine)
    \/ RerankReturn

SpecRerank == InitRerank /\ [][RerankNext]_vars

\* ---- properties of re-ranking ----

Reranked == rerank.pc \in {"reranked", "diversified"}

\* the entry a method made for one result
EntryOf(list, result) ==
    list[CHOOSE n \in DOMAIN list : list[n].original_result = result]

OwnSignal(list, result) ==
    IF list # <<>>
    THEN [has |-> TRUE, score |-> EntryOf(list, result).rerank_score]
    ELSE [has |-> FALSE]

\* the hybrid entry a result gets from the scores the three methods computed
\* for that result itself
OwnHybridEntry(result, cross_encoder_results, semantic_results, feature_results, total_results) ==
    Only({ReRankedResult(result, weighted, total_results,
              EntryOf(feature_results, result).relevance_features
              @@ (IF m.has THEN [semantic_similarity |-> m.score] ELSE <<>>)
              @@ (IF c.has THEN [cross_encoder_score |-> c.score] ELSE <<>>)
              @@ [hybrid_score |-> weighted]) :
          <<c, m, weighted>> \in
              {Only({<<c2, m2, WeightedAverage(c2, m2, f2,
                                               result.hybrid_score)>> :
                     c2 \in {OwnSignal(cross_encoder_results, result)},
                     m2 \in {OwnSignal(semantic_results, result)},
                     f2 \in {OwnSignal(feature_results, result)}})}})

\* C18: in the hybrid method every returned result carries the weighted
\* average (0.4 cross-encoder, 0.3 semantic similarity, 0.3 feature-based,
\* over the available signals, divided by the sum of their weights) of the
\* scores computed for that same result, and the relevance_features computed
\* for that same result, whatever the order of the input list.
C18_HybridScoreIsOwnWeightedAverage ==
    (Reranked /\ rerank.method = "hybrid" /\ rerank.results # <<>>) =>
        \A n \in DOMAIN rerank.out :
            rerank.out[n] =
                OwnHybridEntry(rerank.out[n].original_result,
                    IF rerank.models /\ Len(rerank.results) > 1
                    THEN RerankWithCrossEncoderScores(rerank.models,
                             rerank.results, Len(rerank.results),
                             rerank.scores)
                    ELSE <<>>,
                    IF rerank.models /\ Len(rerank.results) > 1
                    THEN RerankWithSemanticSimilarity(rerank.models,
                             rerank.results, Len(rerank.results),
                             rerank.similarities)
                    ELSE <<>>,
                    RerankWithFeatures(rerank.query, rerank.results,
                                       Len(rerank.results)),
                    Len(rerank.results))

Diversified == rerank.pc = "diversified"

SimilarityOf(a, b) ==
    CalculateContentSimilarity(rerank.models, a, b, rerank.cosine)

\* out is a selection of in that keeps the order
IsOrderedSelection(out, in) ==
    \E f \in [DOMAIN out -> DOMAIN in] :
        /\ \A i \in DOMAIN out : out[i] = in[f[i]]
        /\ \A i, j \in DOMAIN out : i < j => f[i] < f[j]

\* C19 as stated: in the list returned by diversify_results every pair of
\* distinct results has content similarity strictly below
\* diversity_threshold, the first input result is the first output result,
\* and the output is an order-preserving selection of the input with at
\* most max_results elements.
C19_DiversifiedBelowThreshold ==
    Diversified =>
        /\ \A i, j \in DOMAIN rerank.diversified :
              i # j => SimilarityOf(rerank.diversified[i],
                                    rerank.diversified[j])
                           < rerank.diversity_threshold
        /\ rerank.out # <<>> =>
              /\ rerank.diversified # <<>>
              /\ rerank.diversified[1] = rerank.out[1]
        /\ IsOrderedSelection(rerank.diversified, rerank.out)
        /\ Len(rerank.diversified) <= rerank.max_results

\* C19 amended: every pair of distinct results of the returned list has
\* content similarity at most diversity_threshold (a result is dropped only
\* when it is strictly more similar than the threshold to a selected one),
\* the first input result is the first output result, and the output is an
\* order-preserving selection of the input with at most max(1, max_results)
\* elements.
C19_DiversifiedWithinThreshold ==
    Diversified =>
        /\ \A i, j \in DOMAIN rerank.diversified :
              i # j => SimilarityOf(rerank.diversified[i],
                                    rerank.diversified[j])
                           <= rerank.diversity_threshold
        /\ rerank.out # <<>> =>
              /\ rerank.diversified # <<>>
              /\ rerank.diversified[1] = rerank.out[1]
        /\ IsOrderedSelection(rerank.diversified, rerank.out)
        /\ Len(rerank.diversified) <= Larger(1, rerank.max_results)

\* the second of three results was dropped and the third, exactly as
\* similar to the first as the threshold, was kept
C19_Witness ==
    /\ Diversified
    /\ Len(rerank.out) = 3
    /\ rerank.diversified = <<rerank.out[1], rerank.out[3]>>
    /\ SimilarityOf(rerank.out[3], rerank.out[1]) = rerank.diversity_threshold
    /\ SimilarityOf(rerank.out[2], rerank.out[1]) > rerank.diversity_threshold

\* C20: every result produced by rerank_results, under every method and
\* every fallback, has a confidence between 0.1 and 1.0.
C20_ConfidenceWithinBounds ==
    Reranked =>
        \A n \in DOMAIN rerank.out :
            /\ rerank.out[n].confidence >= 100
            /\ rerank.out[n].confidence <= 1000

\* a cross-encoder call returned a result with a negative score, held at
\* 0.1, next to one with a score above 1
C20_Witness ==
    /\ Reranked
    /\ rerank.method = "cross_encoder"
    /\ rerank.scores.ok
    /\ \E n, m \in DOMAIN rerank.out :
          /\ rerank.out[n].rerank_score < 0
          /\ rerank.out[n].confidence = 100
          /\ rerank.out[m].rerank_score > 1000
          /\ rerank.out[m].confidence > 900

\* ------------------------------------------------------------------------
\* WebhookProcessor (services/webhook_receiver.py)
\*
\* The coroutines run on one event loop: a step is the code between two
\* points where a coroutine gives up the loop.  processing_queue is not
\* bounded, so put and a get on a queue that is not empty do not wait.
\* ------------------------------------------------------------------------

MaxEvents == 3                   \* webhook deliveries ever made

\* a push with changed files waits for incremental_index; a push without
\* changed files returns from _handle_push_event without waiting
EventKinds == {"push", "empty_push"}

\* the answers of process_webhook that enqueue nothing
Rejections ==
    {"Invalid signature", "Unknown webhook provider",
     "Unsupported event type"}

\* WebhookProcessor.__init__
NewWebhookProcessor ==
    [pc |-> "idle", queue |-> <<>>, is_processing |-> FALSE, tasks |-> <<>>,
     deliveries |-> 0, accepted |-> {}, passed |-> <<>>, failed |-> {},
     response |-> [success |-> FALSE, error |-> "none"]]

InitWebhook ==
    /\ disk = [p \in AbsPaths |-> NoFile]
    /\ file_indexes = <<>>
    /\ index_file = <<>>
    /\ points = [c \in Collections |-> {}]
    /\ jobs = <<>>
    /\ active_jobs = <<>>
    /\ job_queue = <<>>
    /\ now = 0
    /\ running = "loop"
    /\ worker = [pc |-> "get"]
    /\ inc = IdleInc
    /\ hist = NoHist
    /\ edits = 0
    /\ search = NoSearch
    /\ rerank = NoRerank
    /\ chunker = NoChunker
    /\ webhook = NewWebhookProcessor

\* process_webhook: a delivery that is rejected, or one that is queued; the
\* drain task is created, not run, when is_processing is false
ProcessWebhook(kind, rejection) ==
    /\ webhook.deliveries < MaxEvents
    /\ webhook' =
         IF rejection \in Rejections
         THEN [webhook EXCEPT !.deliveries = @ + 1,
                              !.response = [success |-> FALSE,
                                            error |-> rejection]]
         ELSE [webhook EXCEPT
                 !.deliveries = @ + 1,
                 !.queue = Append(@, [id |-> webhook.deliveries + 1,
                                      kind |-> kind]),
                 !.accepted = @ \cup {webhook.deliveries + 1},
                 !.tasks = IF webhook.is_processing THEN @
                           ELSE Append(@, [pc |-> "created"]),
                 !.response = [success |-> TRUE, error |-> "none"]]
    /\ UNCHANGED <<disk, file_indexes, index_file, points, jobs, active_jobs,
                   job_queue, now, running, worker, inc, hist, edits, search,
                   rerank, chunker>>

\* the while loop of _process_queue from its test on, up to the first
\* handler that waits: an event whose handler does not wait is handled at
\* once
RECURSIVE DrainLoop(_, _)
DrainLoop(queue, passed) ==
    IF queue = <<>> THEN [queue |-> <<>>, passed |-> passed, at |-> "done"]
    ELSE IF Head(queue).kind = "empty_push"
    THEN DrainLoop(Tail(queue), Append(passed, Head(queue).id))
    ELSE [queue |-> Tail(queue), passed |-> Append(passed, Head(queue).id),
          at |-> "handling", event |-> Head(queue).id]

\* what _process_queue does when _handle_webhook_event has returned or
\* raised
DrainAfterStopOnFailure(queue, passed, raised) ==
    IF raised THEN [queue |-> queue, passed |-> passed, at |-> "done"]
    ELSE DrainLoop(queue, passed)

DrainAfter(queue, passed, raised) == DrainLoop(queue, passed)

\* a drain step leaves the task waiting in a handler, or ends it through the
\* finally clause
DrainTo(t, r) ==
    [webhook EXCEPT !.queue = r.queue, !.passed = r.passed,
                    !.is_processing = (r.at = "handling"),
                    !.tasks[t] = IF r.at = "handling"
                                 THEN [pc |-> r.at, event |-> r.event]
                                 ELSE [pc |-> r.at]]

\* a created drain task gets the loop: _process_queue from its first line
DrainRun(t) ==
    /\ t \in DOMAIN webhook.tasks
    /\ webhook.tasks[t].pc = "created"
    /\ webhook' = DrainTo(t, DrainLoop(webhook.queue, webhook.passed))
    /\ UNCHANGED <<disk, file_indexes, index_file, points, jobs, active_jobs,
                   job_queue, now, running, worker, inc, hist, edits, search,
                   rerank, chunker>>

\* the handler a drain task waits in returns or raises
DrainResume(t, raised) ==
    /\ t \in DOMAIN webhook.tasks
    /\ webhook.tasks[t].pc = "handling"
    /\ webhook' = [DrainTo(t, DrainAfter(webhook.queue, webhook.passed,
                                         raised))
                       EXCEPT !.failed = IF raised
                                         THEN @ \cup {webhook.tasks[t].event}
                                         ELSE @]
    /\ UNCHANGED <<disk, file_indexes, index_file, points, jobs, active_jobs,
                   job_queue, now, running, worker, inc, hist, edits, search,
                   rerank, chunker>>

DrainSteps ==
    \E t \in 1..MaxEvents :
        \/ DrainRun(t)
        \/ \E raised \in BOOLEAN : DrainResume(t, raised)

WebhookNext ==
    \/ \E kind \in EventKinds, rejection \in Rejections \cup {"none"} :
          ProcessWebhook(kind, rejection)
    \/ DrainSteps

SpecWebhook == InitWebhook /\ [][WebhookNext]_vars

SpecWebhookFair == SpecWebhook /\ WF_vars(DrainSteps)

ActiveDrains == {t \in DOMAIN webhook.tasks : webhook.tasks[t].pc = "handling"}

Count(s, x) == Cardinality({i \in DOMAIN s : s[i] = x})

\* C30: an event that process_webhook queued is passed to
\* _handle_webhook_event, once and never twice, also when it arrives while a
\* drain task ends and when the handling of an earlier event failed.
C30_QueuedEventsAreHandledOnce ==
    /\ [](\A e \in 1..MaxEvents :
            /\ Count(webhook.passed, e) <= 1
            /\ Count(webhook.passed, e) = 1 => e \in webhook.accepted)
    /\ \A e \in 1..MaxEvents :
          (e \in webhook.accepted) ~> (Count(webhook.passed, e) = 1)

\* every delivery was queued, the handling of the first event failed, a
\* later drain task was created after the first had ended, and all events
\* were handled
C30_Witness ==
    /\ webhook.accepted = 1..MaxEvents
    /\ 1 \in webhook.failed
    /\ Len(webhook.passed) = MaxEvents
    /\ Len(webhook.tasks) >= 2
    /\ \A t \in DOMAIN webhook.tasks : webhook.tasks[t].pc = "done"
    /\ ~webhook.is_processing

\* ------------------------------------------------------------------------
\* The ledger across a restart (enhanced_indexing.py, lines 56-122)
\* ------------------------------------------------------------------------

\* The process ends while no incremental_index call is under way and a new
\* one is started: __init__ with empty tables, then _load_file_indexes.  The
\* ledger file, the vector store and the repository stay as they are.
Restart ==
    /\ running = "loop"
    /\ inc.pc \in {"idle", "done"}
    /\ file_indexes' = LoadFileIndexes(index_file)
    /\ active_jobs' = <<>>
    /\ job_queue' = <<>>
    /\ worker' = [pc |-> "get"]
    /\ inc' = IdleInc
    /\ UNCHANGED <<disk, index_file, points, jobs, now, running, hist, edits,
                   search, rerank, chunker, webhook>>

\* pushes that modify a.py or remove it
PushLedgerNext ==
    \/ IncCreate({}, {"a.py"}, {}, "None")
    \/ IncCreate({}, {}, {RepoPath \o "/a.py"}, "None")
    \/ IncSteps

SpecRestart == Init /\ [][EnvNext \/ PushLedgerNext \/ Restart]_vars

MaxCount == 150                  \* largest number of results of one call

ConfidenceScores == {0 - 500, 0, 250, 500, 999, 1000, 1500}

InitConfidence ==
    /\ disk = [p \in AbsPaths |-> NoFile]
    /\ file_indexes = <<>>
    /\ index_file = <<>>
    /\ points = [c \in Collections |-> {}]
    /\ jobs = <<>>
    /\ active_jobs = <<>>
    /\ job_queue = <<>>
    /\ now = 0
    /\ running = "loop"
    /\ worker = [pc |-> "get"]
    /\ inc = IdleInc
    /\ hist = NoHist
    /\ edits = 0
    /\ search = NoSearch
    /\ \E score \in ConfidenceScores, total_results \in 1..MaxCount :
          rerank = [pc |-> "arguments", score |-> score,
                    total_results |-> total_results]
    /\ chunker = NoChunker
    /\ webhook = NoWebhook

\* one call of _calculate_confidence; its return value is kept
CallCalculateConfidence ==
    /\ rerank.pc = "arguments"
    /\ rerank' = [pc |-> "confidence", score |-> rerank.score,
                  total_results |-> rerank.total_results,
                  confidence |-> CalculateConfidence(rerank.score,
                                                     rerank.total_results)]
    /\ UNCHANGED <<disk, file_indexes, index_file, points, jobs, active_jobs,
                   job_queue, now, running, worker, inc, hist, edits, search,
                   chunker, webhook>>

SpecConfidence == InitConfidence /\ [][CallCalculateConfidence]_vars

\* clamp(clamp(score, 0, 1) * (0.7 + 0.3 * (1 - min(1, n/100))), 0.1, 1.0)
ClampFormula(score, n) ==
    Larger(100, Smaller(1000,
        (Larger(0, Smaller(1000, score))
         * (700000 + 300 * (1000 - Smaller(1000, n * 10)))) \div 1000000))

\* C25: _calculate_confidence(score, n) is
\* clamp(clamp(score, 0, 1) * (0.7 + 0.3 * (1 - min(1, n/100))), 0.1, 1.0)
\* for every score and every n, n > 100 included, and for a fixed score it
\* does not grow with n.
C25_ConfidenceIsClampFormula ==
    rerank.pc = "confidence" =>
        /\ rerank.confidence = ClampFormula(rerank.score, rerank.total_results)
        /\ CalculateConfidence(rerank.score, rerank.total_results + 1)
               <= rerank.confidence

\* ---------------------------------------------------------------------
\* SemanticChunkingService.
\*
\* A text is the sequence of its characters; a symbol of more than one
\* character ("=>", "def") stands for that lexeme and is matched whole.
\* Offsets are 0-based as in the code: content[:p] is Take(content, p).
\* ---------------------------------------------------------------------
MaxChars == 4
MaxTokens == 2

NL == "\n"
SP == " "
IsSpace(c) == c \in {SP, NL}

Take(text, p) == SubSeq(text, 1, p)
Drop(text, p) == SubSeq(text, p + 1, Len(text))
Slice(text, p, q) == SubSeq(text, p + 1, q)
CountOf(text, c) == Cardinality({i \in DOMAIN text : text[i] = c})

\* str.split(sep) and sep.join(parts)
RECURSIVE SplitOn(_, _)
SplitOn(text, sep) == IF \A i \in DOMAIN text : text[i] # sep THEN <<text>> ELSE LET p == CHOOSE i \in DOMAIN text : text[i] = sep /\ \A j \in 1..(i - 1) : text[j] # sep IN <<Take(text, p - 1)>> \o SplitOn(Drop(text, p), sep)
RECURSIVE JoinWith(_, _)
JoinWith(parts, sep) == IF parts = <<>> THEN <<>> ELSE IF Len(parts) = 1 THEN parts[1] ELSE parts[1] \o sep \o JoinWith(Tail(parts), sep)

\* str.strip() and "not text.strip()"
IsBlank(text) == \A i \in DOMAIN text : IsSpace(text[i])
Strip(text) == IF IsBlank(text) THEN <<>> ELSE LET first == CHOOSE i \in DOMAIN text : ~IsSpace(text[i]) /\ \A j \in 1..(i - 1) : IsSpace(text[j]) last == CHOOSE i \in DOMAIN text : ~IsSpace(text[i]) /\ \A j \in (i + 1)..Len(text) : IsSpace(text[j]) IN SubSeq(text, first, last)

\* str.find(needle): the least offset where needle occurs, or -1
OccursAt(text, needle, p) == p + Len(needle) <= Len(text) /\ Slice(text, p, p + Len(needle)) = needle
Find(text, needle) == IF \E p \in 0..Len(text) : OccursAt(text, needle, p) THEN CHOOSE p \in 0..Len(text) : OccursAt(text, needle, p) /\ \A q \in 0..(p - 1) : ~OccursAt(text, needle, q) ELSE 0 - 1

\* len(text.split()): the number of maximal runs of non-space characters
SplitWords(text) == Cardinality({i \in DOMAIN text : ~IsSpace(text[i]) /\ (i = 1 \/ IsSpace(text[i - 1]))})

\* tokens of the cl100k_base encoding: every word is one token and every
\* run of newlines is one more
NewlineRuns(text) == Cardinality({i \in DOMAIN text : text[i] = NL /\ (i = 1 \/ text[i - 1] # NL)})
CountTokens(tokenizer, text) == IF ~tokenizer THEN SplitWords(text) ELSE SplitWords(text) + NewlineRuns(text)

Chunk(id, content, file_path, start_line, end_line, chunk_type, language, metadata) == [id |-> id, content |-> content, file_path |-> file_path, start_line |-> start_line, end_line |-> end_line, chunk_type |-> chunk_type, language |-> language, metadata |-> metadata]

\* the chunk _chunk_by_lines builds for the window of lines that starts
\* at index i
LinesChunk(file_path, i, chunk_lines, language, chunk_size) == Chunk(file_path \o ":lines:" \o ToString(i \div chunk_size) \o ":" \o ToString(i + 1) \o "-" \o ToString(i + Len(chunk_lines)), JoinWith(chunk_lines, <<NL>>), file_path, i + 1, i + Len(chunk_lines), "lines", language, [line_count |-> Len(chunk_lines), chunk_index |-> i \div chunk_size])

RECURSIVE ChunkWindows(_, _, _, _, _)
ChunkWindows(file_path, lines, language, chunk_size, i) ==
    IF i >= Len(lines)
    THEN <<>>
    ELSE LET end_line == Smaller(i + chunk_size, Len(lines))
             chunk_lines == Slice(lines, i, end_line)
             rest == ChunkWindows(file_path, lines, language, chunk_size, i + chunk_size)
         IN  IF IsBlank(JoinWith(chunk_lines, <<NL>>))
             THEN rest
             ELSE <<LinesChunk(file_path, i, chunk_lines, language, chunk_size)>> \o rest

ChunkByLines(file_path, content, language, chunk_size) == ChunkWindows(file_path, SplitOn(content, NL), language, chunk_size, 0)

WithParent(metadata, id) == [k \in DOMAIN metadata \cup {"parent_chunk"} |-> IF k = "parent_chunk" THEN id ELSE metadata[k]]

\* a sub-chunk flushed inside the loop, and the one made of the lines
\* that remain after it
FlushedSubChunk(chunk, sub_chunks, current_lines) == Chunk(chunk.id \o "_sub_" \o ToString(Len(sub_chunks)), JoinWith(current_lines, <<NL>>), chunk.file_path, chunk.start_line + Len(sub_chunks), chunk.start_line + Len(current_lines), chunk.chunk_type, chunk.language, WithParent(chunk.metadata, chunk.id))
RemainingSubChunk(chunk, sub_chunks, current_lines) == Chunk(chunk.id \o "_sub_" \o ToString(Len(sub_chunks)), JoinWith(current_lines, <<NL>>), chunk.file_path, chunk.end_line - Len(current_lines) + 1, chunk.end_line, chunk.chunk_type, chunk.language, WithParent(chunk.metadata, chunk.id))

RECURSIVE SplitLines(_, _, _, _, _, _, _)
SplitLines(chunk, tokenizer, max_tokens, lines, sub_chunks, current_lines, current_tokens) ==
    IF lines = <<>>
    THEN [sub_chunks |-> sub_chunks, current_lines |-> current_lines]
    ELSE LET line == Head(lines)
             line_tokens == CountTokens(tokenizer, line)
         IN  IF current_tokens + line_tokens > max_tokens /\ current_lines # <<>>
             THEN SplitLines(chunk, tokenizer, max_tokens, Tail(lines),
                             Append(sub_chunks, FlushedSubChunk(chunk, sub_chunks, current_lines)),
                             <<line>>, line_tokens)
             ELSE SplitLines(chunk, tokenizer, max_tokens, Tail(lines), sub_chunks,
                             Append(current_lines, line), current_tokens + line_tokens)

SplitLargeChunk(chunk, tokenizer, max_tokens) ==
    LET loop == SplitLines(chunk, tokenizer, max_tokens, SplitOn(chunk.content, NL), <<>>, <<>>, 0)
    IN  IF loop.current_lines # <<>>
        THEN Append(loop.sub_chunks, RemainingSubChunk(chunk, loop.sub_chunks, loop.current_lines))
        ELSE loop.sub_chunks

\* what optimize_chunk_size appends for one chunk
OptimizedPart(chunk, tokenizer, max_tokens) ==
    IF CountTokens(tokenizer, chunk.content) <= max_tokens
    THEN [split |-> FALSE, chunks |-> <<chunk>>]
    ELSE [split |-> TRUE, chunks |-> SplitLargeChunk(chunk, tokenizer, max_tokens)]

RECURSIVE Extend(_, _)
Extend(parts, i) == IF i > Len(parts) THEN <<>> ELSE parts[i].chunks \o Extend(parts, i + 1)

\* the chunk lists handed to optimize_chunk_size: what _chunk_by_lines
\* returns for a text, as the first window of a file or as a later one
SourceChars == {"a", SP, NL}
SourceTexts == UNION {[1..n -> SourceChars] : n \in 1..MaxChars}
WindowStarts == {0, 50}
OptimizeArguments == {<<LinesChunk("a.txt", i, SplitOn(text, NL), "text", 50)>> : i \in WindowStarts, text \in {t \in SourceTexts : ~IsBlank(t)}}

InitOptimize ==
    /\ disk = [p \in AbsPaths |-> NoFile]
    /\ file_indexes = <<>>
    /\ index_file = <<>>
    /\ points = [c \in Collections |-> {}]
    /\ jobs = <<>>
    /\ active_jobs = <<>>
    /\ job_queue = <<>>
    /\ now = 0
    /\ running = "loop"
    /\ worker = [pc |-> "get"]
    /\ inc = IdleInc
    /\ hist = NoHist
    /\ edits = 0
    /\ search = NoSearch
    /\ rerank = NoRerank
    /\ webhook = NoWebhook
    /\ \E tokenizer \in BOOLEAN, chunks \in OptimizeArguments, max_tokens \in 1..MaxTokens :
          chunker = [pc |-> "arguments", tokenizer |-> tokenizer, chunks |-> chunks,
                     max_tokens |-> max_tokens]

OptimizeChunkSize ==
    /\ chunker.pc = "arguments"
    /\ LET parts == [i \in DOMAIN chunker.chunks |->
                        OptimizedPart(chunker.chunks[i], chunker.tokenizer, chunker.max_tokens)]
       IN  chunker' = [chunker EXCEPT !.pc = "optimized"] @@
                      [parts |-> parts, optimized_chunks |-> Extend(parts, 1)]
    /\ UNCHANGED <<disk, file_indexes, index_file, points, jobs, active_jobs,
                   job_queue, now, running, worker, inc, hist, edits, search,
                   rerank, webhook>>

SpecOptimize == InitOptimize /\ [][OptimizeChunkSize]_vars

Optimized == chunker.pc = "optimized"
SplitParents == {i \in DOMAIN chunker.chunks : chunker.parts[i].split}
ContentsOf(chunks) == [n \in DOMAIN chunks |-> chunks[n].content]

\* C21: after optimize_chunk_size every returned chunk counts at most
\* max_tokens tokens, unless it is a single line that alone exceeds
\* max_tokens.
C21_WithinTokenBudget ==
    Optimized =>
        \A i \in DOMAIN chunker.optimized_chunks :
            LET chunk == chunker.optimized_chunks[i]
            IN  \/ CountTokens(chunker.tokenizer, chunk.content) <= chunker.max_tokens
                \/ CountOf(chunk.content, NL) = 0

\* C26: the sub-chunks of a split chunk partition the parent's lines in
\* order: their contents joined with newlines are the parent's content,
\* none is empty, each carries parent_chunk = the parent's id, and the
\* ids are the parent's id followed by _sub_0, _sub_1, ... in order.
C26_SubChunksPartitionParent ==
    Optimized =>
        \A i \in SplitParents :
            LET parent == chunker.chunks[i]
                sub_chunks == chunker.parts[i].chunks
            IN  /\ JoinWith(ContentsOf(sub_chunks), <<NL>>) = parent.content
                /\ \A n \in DOMAIN sub_chunks :
                      /\ sub_chunks[n].content # <<>>
                      /\ sub_chunks[n].metadata.parent_chunk = parent.id
                      /\ sub_chunks[n].id = parent.id \o "_sub_" \o ToString(n - 1)

\* the parts of C26 other than "no sub-chunk is empty"
SubChunksJoinToParent ==
    Optimized =>
        \A i \in SplitParents :
            LET parent == chunker.chunks[i]
                sub_chunks == chunker.parts[i].chunks
            IN  /\ sub_chunks # <<>>
                /\ JoinWith(ContentsOf(sub_chunks), <<NL>>) = parent.content
                /\ \A n \in DOMAIN sub_chunks :
                      /\ sub_chunks[n].metadata.parent_chunk = parent.id
                      /\ sub_chunks[n].id = parent.id \o "_sub_" \o ToString(n - 1)

\* C27: every sub-chunk has start_line <= end_line inside the parent's
\* range, spans as many lines as its content has, and successive
\* sub-chunks are adjacent and together cover the parent's range.
C27_SubChunkLineRanges ==
    Optimized =>
        \A i \in SplitParents :
            LET parent == chunker.chunks[i]
                sub_chunks == chunker.parts[i].chunks
            IN  /\ sub_chunks # <<>>
                /\ sub_chunks[1].start_line = parent.start_line
                /\ sub_chunks[Len(sub_chunks)].end_line = parent.end_line
                /\ \A n \in DOMAIN sub_chunks :
                      /\ sub_chunks[n].start_line <= sub_chunks[n].end_line
                      /\ parent.start_line <= sub_chunks[n].start_line
                      /\ sub_chunks[n].end_line <= parent.end_line
                      /\ sub_chunks[n].end_line - sub_chunks[n].start_line + 1
                             = CountOf(sub_chunks[n].content, NL) + 1
                      /\ n > 1 => sub_chunks[n].start_line = sub_chunks[n - 1].end_line + 1

\* ---------------------------------------------------------------------
\* _semantic_chunk_text: groups of three sentences, stepping by two.
\* ---------------------------------------------------------------------
RunEnd(text, p, set) == CHOOSE e \in p..Len(text) : (\A j \in p..e : text[j] \in set) /\ (e = Len(text) \/ text[e + 1] \notin set)

\* a match of [.!?]+[\s\n]+ starts at index p
SentenceEndAt(text, p) == text[p] = "." /\ RunEnd(text, p, {"."}) < Len(text) /\ IsSpace(text[RunEnd(text, p, {"."}) + 1])

\* re.split(r"[.!?]+[\s\n]+", content)
RECURSIVE SplitSentences(_)
SplitSentences(text) == IF \A p \in DOMAIN text : ~SentenceEndAt(text, p) THEN <<text>> ELSE LET p == CHOOSE i \in DOMAIN text : SentenceEndAt(text, i) /\ \A j \in 1..(i - 1) : ~SentenceEndAt(text, j) IN <<Take(text, p - 1)>> \o SplitSentences(Drop(text, RunEnd(text, RunEnd(text, p, {"."}) + 1, {SP, NL})))

SemanticChunk(file_path, content, language, i, chunk_sentences, chunk_content, start_pos) == LET start_line == CountOf(Take(content, start_pos), NL) end_line == CountOf(Take(content, start_pos + Len(chunk_content)), NL) IN Chunk(file_path \o ":semantic:" \o ToString(i \div 3) \o ":" \o ToString(start_line) \o "-" \o ToString(end_line), chunk_content, file_path, start_line + 1, end_line + 1, "semantic", language, [sentence_count |-> Len(chunk_sentences), chunk_index |-> i \div 3])

RECURSIVE SentenceGroups(_, _, _, _, _)
SentenceGroups(file_path, content, language, sentences, i) ==
    IF i >= Len(sentences)
    THEN <<>>
    ELSE LET chunk_sentences == Slice(sentences, i, Smaller(i + 3, Len(sentences)))
             chunk_content == Strip(JoinWith(chunk_sentences, <<".", SP>>))
             start_pos == Find(content, chunk_content)
             rest == SentenceGroups(file_path, content, language, sentences, i + 2)
         IN  IF chunk_content = <<>> \/ start_pos = 0 - 1
             THEN rest
             ELSE <<SemanticChunk(file_path, content, language, i, chunk_sentences,
                                  chunk_content, start_pos)>> \o rest

SemanticChunkText(sentence_model, file_path, content, language) ==
    IF ~sentence_model
    THEN ChunkByLines(file_path, content, language, 50)
    ELSE SentenceGroups(file_path, content, language, SplitSentences(content), 0)

\* ---------------------------------------------------------------------
\* _chunk_javascript_code: one chunk per match of the function pattern
\* or of the class pattern, ended by the brace that closes its block.
\* ---------------------------------------------------------------------
FunctionLexemes == {"=>", "function f"}
ClassLexemes == {"class C"}

MatchName(lexeme) == IF lexeme = "function f" THEN "f" ELSE IF lexeme = "class C" THEN "C" ELSE "anonymous"

\* the offset of the first "}" at or after offset i that brings
\* brace_count back to 0, or -1
RECURSIVE BlockEnd(_, _, _)
BlockEnd(content, i, brace_count) ==
    IF i >= Len(content)
    THEN 0 - 1
    ELSE IF content[i + 1] = "{"
         THEN BlockEnd(content, i + 1, brace_count + 1)
         ELSE IF content[i + 1] = "}"
              THEN IF brace_count - 1 = 0 THEN i ELSE BlockEnd(content, i + 1, brace_count - 1)
              ELSE BlockEnd(content, i + 1, brace_count)

JavascriptChunk(file_path, content, lines, start) ==
    LET lexeme == content[start + 1]
        chunk_type == IF lexeme \in ClassLexemes THEN "class" ELSE "function"
        start_line == CountOf(Take(content, start), NL)
        closing == BlockEnd(content, start, 0)
        found_end == IF closing = 0 - 1
                     THEN CountOf(Take(content, start + 1), NL) + 5
                     ELSE CountOf(Take(content, closing), NL)
        end_line == Smaller(found_end, Len(lines) - 1)
        name == MatchName(lexeme)
    IN  Chunk(file_path \o ":" \o chunk_type \o ":" \o name \o ":" \o ToString(start_line)
                  \o "-" \o ToString(end_line),
              JoinWith(Slice(lines, start_line, end_line + 1), <<NL>>),
              file_path, start_line + 1, end_line + 1, chunk_type, "javascript",
              [name |-> name, signature |-> lexeme, is_async |-> FALSE])

RECURSIVE JavascriptMatches(_, _, _, _)
JavascriptMatches(file_path, content, lines, start) ==
    IF start >= Len(content)
    THEN <<>>
    ELSE IF content[start + 1] \in FunctionLexemes \cup ClassLexemes
         THEN <<JavascriptChunk(file_path, content, lines, start)>>
                  \o JavascriptMatches(file_path, content, lines, start + 1)
         ELSE JavascriptMatches(file_path, content, lines, start + 1)

ChunkJavascriptCode(sentence_model, file_path, content) ==
    LET chunks == JavascriptMatches(file_path, content, SplitOn(content, NL), 0)
    IN  IF chunks = <<>>
        THEN SemanticChunkText(sentence_model, file_path, content, "javascript")
        ELSE chunks

\* ---------------------------------------------------------------------
\* _chunk_markdown: one section per header line, then the remainder.
\* ---------------------------------------------------------------------
LineEnd(text, i) == IF \E j \in i..Len(text) : text[j] = NL THEN (CHOOSE j \in i..Len(text) : text[j] = NL /\ \A k \in i..(j - 1) : text[k] # NL) - 1 ELSE Len(text)

\* the match of ^(#{1,6})\s+(.+)$ that starts at offset p, if there is
\* one: the hashes, then the longest run of white space that leaves a
\* title of at least one character on a line
HeaderWidths(text, p) ==
    LET hashes == RunEnd(text, p + 1, {"#"}) - p
        space_end == RunEnd(text, p + hashes + 1, {SP, NL})
    IN  {w \in 1..(space_end - p - hashes) :
             p + hashes + w < Len(text) /\ text[p + hashes + w + 1] # NL}
IsHeaderAt(text, p) ==
    /\ p < Len(text)
    /\ p = 0 \/ text[p] = NL
    /\ text[p + 1] = "#"
    /\ RunEnd(text, p + 1, {"#"}) - p <= 6
    /\ RunEnd(text, p + 1, {"#"}) < Len(text)
    /\ IsSpace(text[RunEnd(text, p + 1, {"#"}) + 1])
    /\ HeaderWidths(text, p) # {}
HeaderMatch(text, p) ==
    LET hashes == RunEnd(text, p + 1, {"#"}) - p
        widths == HeaderWidths(text, p)
        width == CHOOSE w \in widths : \A v \in widths : v <= w
        title_start == p + hashes + width
    IN  [header |-> Slice(text, p, p + hashes),
         title |-> Slice(text, title_start, LineEnd(text, title_start + 1)),
         end |-> LineEnd(text, title_start + 1)]

\* re.split(r"^(#{1,6})\s+(.+)$", content, flags=re.MULTILINE)
RECURSIVE SplitHeaders(_)
SplitHeaders(text) ==
    IF \A p \in 0..Len(text) : ~IsHeaderAt(text, p)
    THEN <<text>>
    ELSE LET p == CHOOSE q \in 0..Len(text) :
                      IsHeaderAt(text, q) /\ \A r \in 0..(q - 1) : ~IsHeaderAt(text, r)
             match == HeaderMatch(text, p)
         IN  <<Take(text, p), match.header, match.title>> \o SplitHeaders(Drop(text, match.end))

SectionChunk(file_path, content, current_pos, section_number, header, title, section_content) ==
    LET start_line == CountOf(Take(content, current_pos), NL)
        section_start == current_pos + Len(header) + Len(title)
        end_line == CountOf(Take(content, Smaller(section_start + Len(section_content), Len(content))), NL)
    IN  Chunk(file_path \o ":section:" \o ToString(section_number) \o ":" \o ToString(start_line)
                  \o "-" \o ToString(end_line),
              header \o title \o section_content,
              file_path, start_line + 1, end_line + 1, "section", "markdown",
              [section_number |-> section_number, title |-> Strip(title), level |-> Len(header)])

FooterChunk(file_path, content, current_pos, section_number) ==
    LET start_line == CountOf(Take(content, current_pos), NL)
        end_line == CountOf(content, NL)
    IN  Chunk(file_path \o ":paragraph:" \o ToString(section_number) \o ":" \o ToString(start_line)
                  \o "-" \o ToString(end_line),
              Drop(content, current_pos),
              file_path, start_line + 1, end_line + 1, "paragraph", "markdown",
              [section_number |-> section_number, is_footer |-> TRUE])

RECURSIVE MarkdownSections(_, _, _, _, _, _)
MarkdownSections(file_path, content, sections, i, current_pos, section_number) ==
    IF i >= Len(sections)
    THEN IF current_pos < Len(content) /\ ~IsBlank(Drop(content, current_pos))
         THEN <<FooterChunk(file_path, content, current_pos, section_number)>>
         ELSE <<>>
    ELSE LET header == sections[i + 1]
             title == sections[i + 2]
             section_content == sections[i + 3]
         IN  <<SectionChunk(file_path, content, current_pos, section_number, header, title,
                            section_content)>>
                 \o MarkdownSections(file_path, content, sections, i + 3,
                                     current_pos + Len(header) + Len(title) + Len(section_content),
                                     section_number + 1)

ChunkMarkdown(file_path, content) == MarkdownSections(file_path, content, SplitHeaders(content), 1, 0, 1)

\* ---------------------------------------------------------------------
\* _chunk_python_code.  A Python source is a sequence of lines, each
\* blank or one statement; ast.parse is modelled on these statements.
\* ---------------------------------------------------------------------
PythonDefs == {"def f(): pass", "class C: pass"}
PythonStatements == PythonDefs \cup {"x = 1"}
\* "(" is never closed: SyntaxError.  "deep" stands for an expression
\* nested too deeply to build its tree: RecursionError.
PythonLines == {<<>>} \cup {<<s>> : s \in PythonStatements \cup {"(", "deep"}}

AstParse(content) ==
    LET lines == SplitOn(content, NL)
    IN  IF \E i \in DOMAIN lines : lines[i] \notin PythonLines \/ lines[i] = <<"(">>
        THEN [error |-> "SyntaxError", nodes |-> <<>>]
        ELSE IF \E i \in DOMAIN lines : lines[i] = <<"deep">>
             THEN [error |-> "RecursionError", nodes |-> <<>>]
             ELSE [error |-> "none", nodes |-> lines]

ExtractPythonNode(file_path, lines, lineno, statement) ==
    LET start_line == lineno - 1
        end_line == Smaller(lineno - 1, Len(lines) - 1)
        node_type == IF statement = "def f(): pass" THEN "function" ELSE "class"
        node_name == IF statement = "def f(): pass" THEN "f" ELSE "C"
    IN  Chunk(file_path \o ":" \o node_type \o ":" \o node_name \o ":" \o ToString(start_line)
                  \o "-" \o ToString(end_line),
              JoinWith(Slice(lines, start_line, end_line + 1), <<NL>>),
              file_path, start_line + 1, end_line + 1, node_type, "python",
              [node_type |-> node_type, name |-> node_name, docstring |-> "None",
               decorators |-> <<>>, arguments |-> <<>>])

RECURSIVE PythonNodes(_, _, _)
PythonNodes(file_path, lines, lineno) ==
    IF lineno > Len(lines)
    THEN <<>>
    ELSE IF lines[lineno] # <<>> /\ lines[lineno][1] \in PythonDefs
         THEN <<ExtractPythonNode(file_path, lines, lineno, lines[lineno][1])>>
                  \o PythonNodes(file_path, lines, lineno + 1)
         ELSE PythonNodes(file_path, lines, lineno + 1)

\* a strategy returns its chunks or raises
Returns(chunks) == [raised |-> "none", chunks |-> chunks]
Raises(error) == [raised |-> error, chunks |-> <<>>]

ChunkPythonCode(sentence_model, file_path, content) ==
    LET tree == AstParse(content)
        chunks == PythonNodes(file_path, SplitOn(content, NL), 1)
    IN  IF tree.error = "SyntaxError"
        THEN Returns(SemanticChunkText(sentence_model, file_path, content, "python"))
        ELSE IF tree.error # "none"
             THEN Raises(tree.error)
             ELSE IF chunks = <<>>
                  THEN Returns(SemanticChunkText(sentence_model, file_path, content, "python"))
                  ELSE Returns(chunks)

\* ---------------------------------------------------------------------
\* _chunk_config_file.  A YAML source is a sequence of lines, each blank,
\* a top-level entry, a plain scalar or an entry with a second ": ";
\* yaml.safe_load is modelled on these lines.
\* ---------------------------------------------------------------------
YamlEntries == {"k: v", "j: v"}
YamlLines == {<<>>} \cup {<<s>> : s \in YamlEntries \cup {"v", "k: v: v"}}
YamlKey(entry) == IF entry = "k: v" THEN "k" ELSE "j"

RECURSIVE EntryKeys(_, _, _)
EntryKeys(lines, i, seen) ==
    IF i > Len(lines)
    THEN <<>>
    ELSE IF lines[i] # <<>> /\ lines[i][1] \in YamlEntries /\ YamlKey(lines[i][1]) \notin seen
         THEN <<YamlKey(lines[i][1])>> \o EntryKeys(lines, i + 1, seen \cup {YamlKey(lines[i][1])})
         ELSE EntryKeys(lines, i + 1, seen)

SafeLoad(content) ==
    LET lines == SplitOn(content, NL)
        entries == {i \in DOMAIN lines : lines[i] # <<>> /\ lines[i][1] \in YamlEntries}
        scalars == {i \in DOMAIN lines : lines[i] = <<"v">>}
    IN  IF \E i \in DOMAIN lines : lines[i] \notin YamlLines \/ lines[i] = <<"k: v: v">>
        THEN [error |-> "YAMLError", type |-> "none", keys |-> <<>>]
        ELSE IF entries # {} /\ scalars # {}
             THEN [error |-> "YAMLError", type |-> "none", keys |-> <<>>]
             ELSE IF entries # {}
                  THEN [error |-> "none", type |-> "dict", keys |-> EntryKeys(lines, 1, {})]
                  ELSE [error |-> "none", type |-> IF scalars # {} THEN "str" ELSE "NoneType",
                        keys |-> <<>>]

ConfigChunk(file_path, lines, key) ==
    LET start_line == (CHOOSE i \in DOMAIN lines : /\ lines[i] # <<>>
                                                   /\ lines[i][1] \in YamlEntries
                                                   /\ YamlKey(lines[i][1]) = key
                                                   /\ \A j \in 1..(i - 1) : lines[j] = <<>> \/ lines[j][1] \notin YamlEntries \/ YamlKey(lines[j][1]) # key) - 1
        end_line == Smaller(start_line + 10, Len(lines) - 1)
    IN  Chunk(file_path \o ":section:" \o key \o ":" \o ToString(start_line) \o "-" \o ToString(end_line),
              JoinWith(Slice(lines, start_line, end_line + 1), <<NL>>),
              file_path, start_line + 1, end_line + 1, "section", "yaml",
              [key |-> key, value_type |-> "str"])

ChunkConfigFile(file_path, content) ==
    LET data == SafeLoad(content)
        lines == SplitOn(content, NL)
    IN  IF data.error # "none"
        THEN ChunkByLines(file_path, content, "yaml", 50)
        ELSE [i \in DOMAIN data.keys |-> ConfigChunk(file_path, lines, data.keys[i])]

\* ---------------------------------------------------------------------
\* chunk_document
\* ---------------------------------------------------------------------
ChunkPaths == {"f.py", "f.js", "f.md", "f.yml", "f.go"}
Suffix(file_path) == IF file_path = "f.py" THEN ".py" ELSE IF file_path = "f.js" THEN ".js" ELSE IF file_path = "f.md" THEN ".md" ELSE IF file_path = "f.yml" THEN ".yml" ELSE ".go"
DetectLanguage(file_ext) == IF file_ext = ".py" THEN "python" ELSE IF file_ext = ".js" THEN "javascript" ELSE IF file_ext = ".md" THEN "markdown" ELSE IF file_ext = ".yml" THEN "yaml" ELSE IF file_ext = ".go" THEN "go" ELSE "text"

ChunkGeneric(sentence_model, file_path, content) == SemanticChunkText(sentence_model, file_path, content, "text")
FallbackChunking(file_path, content) == ChunkByLines(file_path, content, "text", 30)

ChooseStrategy(sentence_model, file_path, content) ==
    LET language == DetectLanguage(Suffix(file_path))
    IN  IF language = "python"
        THEN ChunkPythonCode(sentence_model, file_path, content)
        ELSE IF language \in {"javascript", "typescript"}
             THEN Returns(ChunkJavascriptCode(sentence_model, file_path, content))
             ELSE IF language \in {"markdown", "text"}
                  THEN Returns(ChunkMarkdown(file_path, content))
                  ELSE IF language \in {"yaml", "yml", "json"}
                       THEN Returns(ChunkConfigFile(file_path, content))
                       ELSE Returns(ChunkGeneric(sentence_model, file_path, content))

\* the strategy's result as it leaves chunk_document when nothing
\* catches what the strategy raises
ChunkDocumentUncaught(sentence_model, file_path, content) == ChooseStrategy(sentence_model, file_path, content)

\* chunk_document with the time of the call appended to every chunk id
StampedChunks(chunks) == [i \in DOMAIN chunks |-> [chunks[i] EXCEPT !.id = @ \o ":" \o ToString(now)]]
ChunkDocumentStamped(sentence_model, file_path, content) ==
    LET strategy == ChooseStrategy(sentence_model, file_path, content)
    IN  IF strategy.raised # "none"
        THEN Returns(StampedChunks(FallbackChunking(file_path, content)))
        ELSE Returns(StampedChunks(strategy.chunks))

SemanticChunkDocument(sentence_model, file_path, content) ==
    LET strategy == ChooseStrategy(sentence_model, file_path, content)
    IN  IF strategy.raised # "none"
        THEN Returns(FallbackChunking(file_path, content))
        ELSE strategy

\* ---------------------------------------------------------------------
\* The service at work: test_semantic_chunking reads a file, chunks it
\* and optimizes the chunks with the default max_tokens.
\* ---------------------------------------------------------------------
MaxCalls == 2
DefaultMaxTokens == 512

TextsOver(chars) == UNION {[1..n -> chars] : n \in 0..MaxChars}
LinesOver(lines) == {text \in {JoinWith(ls, <<NL>>) : ls \in UNION {[1..n -> lines] : n \in 1..((MaxChars + 1) \div 2)}} : Len(text) <= MaxChars}

MarkdownChars == {"#", SP, "t", NL}
ProseChars == {"a", ".", SP, NL}
JavascriptChars == {"=>", "function f", "class C", "{", "}", NL}

DocumentsOf(file_path) == IF file_path = "f.py" THEN LinesOver(PythonLines) ELSE IF file_path = "f.yml" THEN LinesOver(YamlLines) ELSE IF file_path = "f.js" THEN TextsOver(JavascriptChars) ELSE IF file_path = "f.md" THEN TextsOver(MarkdownChars) ELSE TextsOver(ProseChars)

\* a later request names a file already requested or one of two others
OtherDocuments == {<<"f.py", <<"(">>>>, <<"f.js", <<"=>">>>>}
Documents == UNION {{<<p, c>> : c \in DocumentsOf(p)} : p \in ChunkPaths}
Requests(calls) == IF calls = <<>> THEN Documents ELSE {<<calls[i].file_path, calls[i].content>> : i \in DOMAIN calls} \cup OtherDocuments

\* _initialize_models sets both models or neither
InitChunker ==
    /\ disk = [p \in AbsPaths |-> NoFile]
    /\ file_indexes = <<>>
    /\ index_file = <<>>
    /\ points = [c \in Collections |-> {}]
    /\ jobs = <<>>
    /\ active_jobs = <<>>
    /\ job_queue = <<>>
    /\ now = 0
    /\ running = "loop"
    /\ worker = [pc |-> "get"]
    /\ inc = IdleInc
    /\ hist = NoHist
    /\ edits = 0
    /\ search = NoSearch
    /\ rerank = NoRerank
    /\ webhook = NoWebhook
    /\ \E loaded \in BOOLEAN :
          chunker = [pc |-> "serving", sentence_model |-> loaded, tokenizer |-> loaded,
                     calls |-> <<>>]

\* chunk_document followed by optimize_chunk_size, or the error that
\* leaves chunk_document
ChunkingCall(file_path, content, returned) ==
    LET parts == [i \in DOMAIN returned.chunks |->
                     OptimizedPart(returned.chunks[i], chunker.tokenizer, DefaultMaxTokens)]
    IN  [file_path |-> file_path, content |-> content, at |-> now,
         raised |-> returned.raised, chunks |-> returned.chunks,
         optimized_chunks |-> Extend(parts, 1)]

TestSemanticChunking ==
    /\ chunker.pc = "serving"
    /\ Len(chunker.calls) < MaxCalls
    /\ \E request \in Requests(chunker.calls) :
          chunker' = [chunker EXCEPT !.calls = Append(@,
                        ChunkingCall(request[1], request[2],
                            SemanticChunkDocument(chunker.sentence_model, request[1], request[2])))]
    /\ now' = now + 1
    /\ UNCHANGED <<disk, file_indexes, index_file, points, jobs, active_jobs,
                   job_queue, running, worker, inc, hist, edits, search,
                   rerank, webhook>>

SpecChunker == InitChunker /\ [][TestSemanticChunking]_vars

Calls == chunker.calls
SameArguments(a, b) == a.file_path = b.file_path /\ a.content = b.content

ParseFailure(call) == IF call.file_path = "f.py" THEN AstParse(call.content).error ELSE IF call.file_path = "f.yml" THEN SafeLoad(call.content).error ELSE "none"
ChunkTypes(call) == {call.chunks[i].chunk_type : i \in DOMAIN call.chunks}
Languages(call) == {call.chunks[i].language : i \in DOMAIN call.chunks}

\* C23: chunk_document never raises: a Python syntax error gives the
\* sentence or line chunks of the text, any other failure of the
\* strategy gives the line chunks of the fallback, and a chunk list is
\* returned in every case, not empty unless the text is blank.
C23_ChunkDocumentNeverRaises ==
    \A i \in DOMAIN Calls :
        /\ Calls[i].raised = "none"
        /\ ParseFailure(Calls[i]) = "SyntaxError"
               => ChunkTypes(Calls[i]) \subseteq {"semantic", "lines"}
        /\ ParseFailure(Calls[i]) \in {"RecursionError", "YAMLError"}
               => ChunkTypes(Calls[i]) \subseteq {"lines"}
        /\ ParseFailure(Calls[i]) = "RecursionError" => Languages(Calls[i]) \subseteq {"text"}
        /\ ParseFailure(Calls[i]) # "none" /\ ~IsBlank(Calls[i].content)
               => Calls[i].chunks # <<>>

\* a source that fails to parse with an error other than SyntaxError
\* and one with a syntax error have both been chunked
C23_Witness ==
    \E i \in DOMAIN Calls : \E j \in DOMAIN Calls :
        /\ ParseFailure(Calls[i]) = "RecursionError"
        /\ Calls[i].chunks # <<>>
        /\ Languages(Calls[i]) = {"text"}
        /\ ParseFailure(Calls[j]) = "SyntaxError"
        /\ Calls[j].chunks # <<>>

DistinctIds(chunks) == \A m \in DOMAIN chunks : \A n \in DOMAIN chunks : m # n => chunks[m].id # chunks[n].id

\* C28: the chunks chunk_document returns for a file, and the chunks
\* left by optimize_chunk_size, have pairwise distinct ids.
C28_ChunkIdsAreDistinct ==
    \A i \in DOMAIN Calls :
        /\ DistinctIds(Calls[i].chunks)
        /\ DistinctIds(Calls[i].optimized_chunks)

====
